---- MODULE Spec2Model ----
(***************************************************************************)
(* Model of pyfo: the iteration driver (pyfo/__main__.py), the per-file    *)
(* pass (rules_checker/worker.py), the rule framework and the patch        *)
(* transaction (rules_checker/core.py), and the three registered rules     *)
(* restricted to a small vocabulary of source lines.                       *)
(***************************************************************************)
EXTENDS Integers, Sequences, FiniteSets, TLC

(***************************************************************************)
(* Bounds of the model.                                                    *)
(***************************************************************************)
\* largest value of the --refactor option that is explored
MaxRefactor == 3
\* number of target files handed to run_checker
NumFiles == 2
\* longest run of import lines at the top of a file the rules are applied to
MaxBlock == 3

(***************************************************************************)
(* Source lines.  A physical line is its text without the line break.      *)
(***************************************************************************)
L_DOC == "'''doc'''"
L_DOCQ == "\"\"\"doc\"\"\""
L_FUT == "from __future__ import annotations"
L_BLANK == ""
L_X == "x = 1"
L_Y == "y = 1"
L_ALLO == "__all__ = ("
L_ALLX == "    \"x\","
L_ALLY == "    \"y\","
L_ALLOS == "    \"os\","
L_CLOSE == ")"
\* an export list that is a list, and one that is a call of tuple
L_ALLLIST == "__all__ = [\"x\"]"
L_ALLCALL == "__all__ = tuple()"
L_DEF == "def _f():"
L_DEFSP == "def _f() :"
L_DEFOK == "def _f() -> None:"
L_BODY == "    pass"
\* an import whose line carries the tag `public`
L_PUBIMP == "import os  # :~PYFO~: public"
\* an async definition, its body on the next line
L_ADEF == "async def g():"
\* a definition with its body on the definition line
L_DEF1 == "def _f(): pass"
\* a decorator, on the line above the definition it decorates
L_DECO == "@deco"
\* three statements on one line
L_SEMI == "import os; x = 1; import sys"
\* the one list element that check_annotations.py inserts: it holds two line
\* breaks, so it is two physical lines once written
E_FUT2 == "from __future__ import annotations\\n\\n"

DefLines == {L_DEF, L_DEFSP, L_DEFOK}

\* an import statement inside a function body, and the lines a body is made of
L_BIMP == "    import os"
BodyLines == {L_BODY, L_BIMP}

(***************************************************************************)
(* Import statements.  A statement is held as the fields the tree gives    *)
(* its node; its source line is what the fixes of check_imports.py write   *)
(* for those fields, and parsing a line finds the statement written so.    *)
(***************************************************************************)
\* ", ".join(names)
RECURSIVE JoinNames(_)
JoinNames(names) ==
    IF names = <<>> THEN ""
    ELSE IF Len(names) = 1 THEN names[1]
    ELSE names[1] \o ", " \o JoinNames(Tail(names))

\* f"import {alias.name}\n": the line of _refactor_split_into_more_lines
ImportLine(name) == "import " \o name

\* f"from {name} import {', '.join(names)}\n"
FromLine(name, names) == "from " \o name \o " import " \o JoinNames(names)

\* the import statements of the vocabulary: what a file may hold at the
\* start and everything the fixes make of it
ImportForms ==
    {[kind |-> "Import", name |-> "", names |-> ns] :
        ns \in {<<"os">>, <<"sys">>, <<"cm">>, <<"os", "sys">>}}
    \cup {[kind |-> "ImportFrom", name |-> "m", names |-> ns] :
              ns \in {<<"a">>, <<"b">>, <<"c">>, <<"b", "a">>, <<"a", "b">>, <<"a", "c">>,
                      <<"b", "c">>, <<"a", "b", "c">>}}
    \cup {[kind |-> "ImportFrom", name |-> m, names |-> <<"a">>] : m \in {".r", "os"}}

RenderImport(f) ==
    IF f.kind = "Import" THEN "import " \o JoinNames(f.names)
    ELSE FromLine(f.name, f.names)

ImportLines == {RenderImport(f) : f \in ImportForms}

\* ast.parse on one import line
ParseImport(l) == CHOOSE f \in ImportForms : RenderImport(f) = l

(***************************************************************************)
(* Python list slicing: s[a:b] with negative and out-of-range indices.     *)
(***************************************************************************)
Max(a, b) == IF a >= b THEN a ELSE b

\* F applied to the value of v, which is computed once
Let(v, F(_)) == CHOOSE r \in {F(x) : x \in {v}} : TRUE

PyIndex(k, n) ==
    IF k < 0 THEN Max(k + n, 0) ELSE (IF k > n THEN n ELSE k)

\* s[a:b]
PySlice(s, a, b) ==
    LET lo == PyIndex(a, Len(s))
        hi == PyIndex(b, Len(s))
    IN  IF lo >= hi THEN <<>> ELSE SubSeq(s, lo + 1, hi)

\* s[:b]
PyHead(s, b) == PySlice(s, 0, b)

\* s[a:]
PyTail(s, a) == PySlice(s, a, Len(s))

\* del s[a:b]
PyDel(s, a, b) ==
    LET lo == PyIndex(a, Len(s))
        hi == PyIndex(b, Len(s))
    IN  IF lo >= hi THEN s ELSE SubSeq(s, 1, lo) \o SubSeq(s, hi + 1, Len(s))

(***************************************************************************)
(* File text.  f.writelines(buffer) concatenates the list elements;        *)
(* f.readlines() splits the text at the line breaks.  The disk holds the   *)
(* physical lines.                                                         *)
(***************************************************************************)
PhysicalLines(elem) ==
    IF elem = E_FUT2 THEN <<L_FUT, L_BLANK>> ELSE <<elem>>

RECURSIVE WriteLines(_)
WriteLines(buf) ==
    IF buf = <<>> THEN <<>>
    ELSE PhysicalLines(Head(buf)) \o WriteLines(Tail(buf))

(***************************************************************************)
(* The tree.  ast.parse and SyntaxTreeElementRoot.build over the           *)
(* vocabulary: the top-level nodes, in source order, each with its span.   *)
(***************************************************************************)
MkNode(kind, lo, hi, name, names, elts, returns) ==
    [kind |-> kind, lineno |-> lo, end_lineno |-> hi, name |-> name,
     names |-> names, elts |-> elts, returns |-> returns]

\* the module node: ast.Module has no lineno, so its span is (0, 0)
Root == MkNode("Root", 0, 0, "", <<>>, <<>>, FALSE)

\* the line closing the tuple whose first element line is j (0: unclosed)
RECURSIVE TupleEnd(_, _)
TupleEnd(lines, j) ==
    IF j > Len(lines) THEN 0
    ELSE IF lines[j] = L_CLOSE THEN j
    ELSE IF lines[j] \in {L_ALLX, L_ALLY, L_ALLOS, L_BLANK} THEN TupleEnd(lines, j + 1)
    ELSE 0

\* the values of the tuple's elements on lines i..j
RECURSIVE TupleElts(_, _, _)
TupleElts(lines, i, j) ==
    IF i > j THEN <<>>
    ELSE (IF lines[i] = L_ALLX THEN <<"x">>
          ELSE IF lines[i] = L_ALLY THEN <<"y">>
          ELSE IF lines[i] = L_ALLOS THEN <<"os">>
          ELSE <<>>) \o TupleElts(lines, i + 1, j)

\* the last line of the function body that starts on line j
RECURSIVE BodyEnd(_, _)
BodyEnd(lines, j) ==
    IF j + 1 <= Len(lines) /\ lines[j + 1] \in BodyLines THEN BodyEnd(lines, j + 1) ELSE j

\* the statements of a function body on lines i..j, as their text
BodyStmts(lines, i, j) ==
    [k \in 1..(j - i + 1) |-> IF lines[i + k - 1] = L_BIMP THEN "import os" ELSE "pass"]

RECURSIVE ParseFrom(_, _)
ParseFrom(lines, i) ==
    IF i > Len(lines) THEN <<>>
    ELSE LET l == lines[i] IN
      CASE l = L_BLANK -> ParseFrom(lines, i + 1)
        [] l \in {L_DOC, L_DOCQ} ->
             <<MkNode("String", i, i, "", <<>>, <<>>, FALSE)>> \o ParseFrom(lines, i + 1)
        [] l = L_FUT ->
             <<MkNode("ImportFrom", i, i, "__future__", <<"annotations">>, <<>>, FALSE)>>
                 \o ParseFrom(lines, i + 1)
        [] l = L_X ->
             <<MkNode("Assign", i, i, "", <<"x">>, <<>>, FALSE)>> \o ParseFrom(lines, i + 1)
        [] l = L_Y ->
             <<MkNode("Assign", i, i, "", <<"y">>, <<>>, FALSE)>> \o ParseFrom(lines, i + 1)
        \* an assignment to __all__: `name` is the class of the assigned node and,
        \* of a call, the name called; `elts` are the values of its elements
        [] l = L_ALLO /\ TupleEnd(lines, i + 1) # 0 ->
             LET j == TupleEnd(lines, i + 1) IN
             <<MkNode("Assign", i, j, "Tuple", <<"__all__">>,
                      TupleElts(lines, i + 1, j), FALSE)>>
                 \o ParseFrom(lines, j + 1)
        [] l = L_ALLLIST ->
             <<MkNode("Assign", i, i, "List", <<"__all__">>, <<"x">>, FALSE)>>
                 \o ParseFrom(lines, i + 1)
        [] l = L_ALLCALL ->
             <<MkNode("Assign", i, i, "tuple", <<"__all__">>, <<>>, FALSE)>>
                 \o ParseFrom(lines, i + 1)
        \* of an import, `elts` holds the tags of its line (_build_tags)
        [] l = L_PUBIMP ->
             <<MkNode("Import", i, i, "", <<"os">>, <<"public">>, FALSE)>>
                 \o ParseFrom(lines, i + 1)
        [] l \in ImportLines ->
             LET f == ParseImport(l) IN
             <<MkNode(f.kind, i, i, f.name, f.names, <<>>, FALSE)>>
                 \o ParseFrom(lines, i + 1)
        \* SyntaxTreeElementAsyncFunction: a name, no `returns`, nodes=None
        [] l = L_ADEF /\ i + 1 <= Len(lines) /\ lines[i + 1] \in BodyLines ->
             LET j == BodyEnd(lines, i + 1) IN
             <<MkNode("AsyncFunction", i, j, "g", <<>>, <<>>, FALSE)>>
                 \o ParseFrom(lines, j + 1)
        \* a decorated definition: the node's lineno is the line of `def`
        [] l = L_DECO /\ i + 2 <= Len(lines) /\ lines[i + 1] \in DefLines
                      /\ lines[i + 2] \in BodyLines ->
             LET j == BodyEnd(lines, i + 2) IN
             <<MkNode("Function", i + 1, j, "_f", <<>>, BodyStmts(lines, i + 2, j),
                      lines[i + 1] = L_DEFOK)>>
                 \o ParseFrom(lines, j + 1)
        \* each statement of the line is a node, with the line as its span
        [] l = L_SEMI ->
             <<MkNode("Import", i, i, "", <<"os">>, <<>>, FALSE),
               MkNode("Assign", i, i, "", <<"x">>, <<>>, FALSE),
               MkNode("Import", i, i, "", <<"sys">>, <<>>, FALSE)>>
                 \o ParseFrom(lines, i + 1)
        [] l = L_DEF1 ->
             <<MkNode("Function", i, i, "_f", <<>>, <<"pass">>, FALSE)>>
                 \o ParseFrom(lines, i + 1)
        [] l \in DefLines /\ i + 1 <= Len(lines) /\ lines[i + 1] \in BodyLines ->
             LET j == BodyEnd(lines, i + 1) IN
             <<MkNode("Function", i, j, "_f", <<>>, BodyStmts(lines, i + 1, j), l = L_DEFOK)>>
                 \o ParseFrom(lines, j + 1)
        [] OTHER -> <<MkNode("SyntaxError", i, i, "", <<>>, <<>>, FALSE)>>

Parse(lines) == ParseFrom(lines, 1)

\* ast.parse raises SyntaxError on text that is no module
ParseOk(lines) == \A k \in 1..Len(Parse(lines)) : Parse(lines)[k].kind # "SyntaxError"

\* the line of the first statement of a function's body (st_elm.nodes[0].lineno)
BodyLineno(node) == IF node.end_lineno = node.lineno THEN node.lineno ELSE node.lineno + 1

\* SyntaxTreeElement.lines: the node's lines in its own parse-time snapshot
NodeLines(snapshot, node) ==
    IF node.lineno = 0 \/ node.end_lineno = 0 THEN <<>>
    ELSE PySlice(snapshot, node.lineno - 1, node.end_lineno)

(***************************************************************************)
(* _LinesResolver: the span operations on the line buffer.                 *)
(***************************************************************************)
\* _range: assert lineno > 0 and end_lineno > 0
RangeOk(node) == node.lineno > 0 /\ node.end_lineno > 0

\* _range_with_zero: assert lineno >= 0 and end_lineno >= 0
RangeWithZeroOk(node) == node.lineno >= 0 /\ node.end_lineno >= 0

remove(buf, node) == PyDel(buf, node.lineno - 1, node.end_lineno)

\* faulty variant: the last line of the span stays in the buffer
replace_lines_keeps_last(buf, lines, lineno, end_lineno) ==
    PyHead(buf, lineno - 1) \o lines \o PyTail(buf, end_lineno - 1)

replace_lines(buf, lines, lineno, end_lineno) ==
    PyHead(buf, lineno - 1) \o lines \o PyTail(buf, end_lineno)

replace(buf, lines, node) == replace_lines(buf, lines, node.lineno, node.end_lineno)

\* faulty variant: a start line of 0 is used as it is
insert_above_unclamped(buf, lines, anchor) ==
    PyHead(buf, anchor.lineno - 1) \o lines \o PyTail(buf, anchor.lineno - 1)

insert_above(buf, lines, anchor) ==
    LET lineno == Max(anchor.lineno, 1)
    IN  PyHead(buf, lineno - 1) \o lines \o PyTail(buf, lineno - 1)

insert_bellow(buf, lines, anchor) ==
    PyHead(buf, anchor.end_lineno) \o lines \o PyTail(buf, anchor.end_lineno)

append_to_end(buf, lines) == buf \o <<L_BLANK, L_BLANK>> \o lines

\* `self != self.original` in __exit__ compares the resolver object with a
\* list; _LinesResolver defines no __eq__/__ne__, so the comparison is by
\* identity and the result is True whatever the buffer holds.
ResolverDiffers(lines, original) == TRUE

(***************************************************************************)
(* Report rows (RulesCheckerFindingReportedError.rich_rows).               *)
(***************************************************************************)
R_REPORTED == "Reported in"
R_SUGGEST == "Suggesting to put following to the end of file"
R_END == "\\n\\n"
R_WRITE == "Wring fix into file ..."
R_NOCHANGE == "Nothing has changed ..."
R_UNAVAILABLE == "!!! REFACTORING UNAVAILABLE FOR THIS FINDING !!!"

(***************************************************************************)
(* Fix callbacks as instruction lists: what the callback asks of the       *)
(* resolver, in order.                                                     *)
(***************************************************************************)
Ins(op, node, lines, lo, hi) ==
    [op |-> op, node |-> node, lines |-> lines, lo |-> lo, hi |-> hi]

Tx(anchor, ops) ==
    <<Ins("enter", anchor, <<>>, 0, 0)>> \o ops \o <<Ins("exit", anchor, <<>>, 0, 0)>>

MkFinding(node, msg, suggest, prog) ==
    [node |-> node, msg |-> msg, suggest |-> suggest, prog |-> prog]

NoFinding == MkFinding(Root, "none", FALSE, <<>>)

\* RuleChecker.refactor_remove
refactor_remove(st_elm) == Tx(st_elm, <<Ins("remove", st_elm, <<>>, 0, 0)>>)

(***************************************************************************)
(* Python string order on the names of the vocabulary.                     *)
(***************************************************************************)
\* the strings that get compared, in the order Python gives them (by code
\* point: "." < digits < "_" < lower-case letters)
Alphabet ==
    <<".r", "0___future__", "1_.r", "2_cm", "3_m", "3_os", "3_sys", "__all__",
      "__future__", "_f", "a", "annotations", "b", "c", "cm", "m", "os", "sys", "x", "y">>

Rank(s) ==
    IF \E i \in 1..Len(Alphabet) : Alphabet[i] = s
    THEN CHOOSE i \in 1..Len(Alphabet) : Alphabet[i] = s
    ELSE Len(Alphabet) + 1

\* name.startswith("_")
StartsWithUnderscore(name) == name \in {"__all__", "__future__", "_f"}

\* sorted(..., key=name): stable
RECURSIVE InsertByName(_, _)
InsertByName(sorted, m) ==
    IF sorted = <<>> THEN <<m>>
    ELSE IF Rank(Head(sorted).name) <= Rank(m.name)
         THEN <<Head(sorted)>> \o InsertByName(Tail(sorted), m)
         ELSE <<m>> \o sorted

RECURSIVE SortByName(_)
SortByName(s) ==
    IF s = <<>> THEN <<>>
    ELSE InsertByName(SortByName(SubSeq(s, 1, Len(s) - 1)), s[Len(s)])

(***************************************************************************)
(* RuleChecker.public_members                                              *)
(***************************************************************************)
\* neither "." nor "[" occurs in a name of the vocabulary
is_public_root(name) == ~StartsWithUnderscore(name)

RECURSIVE PublicOf(_, _, _)
PublicOf(names, alias, tags) ==
    IF names = <<>> THEN <<>>
    ELSE (IF is_public_root(Head(names))
          THEN <<[name |-> Head(names), alias |-> alias, tags |-> tags]>>
          ELSE <<>>) \o PublicOf(Tail(names), alias, tags)

NodeMembers(n) ==
    CASE n.kind \in {"Class", "Function", "Annotation"} -> PublicOf(<<n.name>>, FALSE, {})
      [] n.kind \in {"Import", "ImportFrom"} ->
           PublicOf(n.names, TRUE, {n.elts[i] : i \in 1..Len(n.elts)})
      [] n.kind = "Assign" -> PublicOf(n.names, FALSE, {})
      [] OTHER -> <<>>

RECURSIVE AllMembers(_)
AllMembers(nodes) ==
    IF nodes = <<>> THEN <<>> ELSE NodeMembers(Head(nodes)) \o AllMembers(Tail(nodes))

public_members(nodes, sort) ==
    IF sort THEN SortByName(AllMembers(nodes)) ELSE AllMembers(nodes)

(***************************************************************************)
(* CheckAllAtTheEnd (id "export_all").                                     *)
(***************************************************************************)
\* faulty variant of ExportPublicMembers: every alias counts
ExportPublicMembersUntagged(nodes) == public_members(nodes, TRUE)

\* CheckAllAtTheEnd._public_members: an alias counts only when tagged public
ExportPublicMembers(nodes) ==
    SelectSeq(public_members(nodes, TRUE), LAMBDA m : ~m.alias \/ "public" \in m.tags)

MemberNames(ms) == [i \in 1..Len(ms) |-> ms[i].name]

\* faulty variant of all_occurences: the assignments from the last to the first
all_occurences_reversed(nodes) ==
    LET occ == SelectSeq(nodes, LAMBDA n :
                   n.kind = "Assign" /\ \E i \in 1..Len(n.names) : n.names[i] = "__all__")
    IN  [i \in 1..Len(occ) |-> occ[Len(occ) + 1 - i]]

all_occurences(nodes) ==
    SelectSeq(nodes, LAMBDA n :
        n.kind = "Assign" /\ \E i \in 1..Len(n.names) : n.names[i] = "__all__")

\* f'    "{member.name}",\n'
MemberLine(name) ==
    IF name = "x" THEN L_ALLX ELSE IF name = "y" THEN L_ALLY ELSE L_ALLOS

\* faulty variant of suggested_fix: the members in the order of their definition
suggested_fix_unsorted(nodes) ==
    LET pub == SelectSeq(public_members(nodes, FALSE),
                         LAMBDA m : ~m.alias \/ "public" \in m.tags)
    IN  IF pub # <<>>
        THEN <<L_ALLO>> \o [i \in 1..Len(pub) |-> MemberLine(pub[i].name)] \o <<L_CLOSE>>
        ELSE <<>>

suggested_fix(nodes) ==
    LET pub == ExportPublicMembers(nodes)
    IN  IF pub # <<>>
        THEN <<L_ALLO>> \o [i \in 1..Len(pub) |-> MemberLine(pub[i].name)] \o <<L_CLOSE>>
        ELSE <<>>

refactor_append(st_elm, nodes) ==
    Tx(st_elm, <<Ins("append_to_end", st_elm, suggested_fix(nodes), 0, 0)>>)

\* two transactions, one after the other, on the same st_elm
refactor_move(st_elm, nodes) == refactor_remove(st_elm) \o refactor_append(st_elm, nodes)

refactor_replace(st_elm, nodes) ==
    Tx(st_elm, <<Ins("replace", st_elm, suggested_fix(nodes), 0, 0)>>)

check_init(nodes) ==
    LET occ == all_occurences(nodes)
    IN  IF Len(occ) > 0
        THEN MkFinding(occ[1], "There shall be no __all__ in __init__.py", TRUE,
                       refactor_remove(occ[1]))
        ELSE NoFinding

\* the first resolve_finding call that _check_regular makes, if any
check_regular(nodes) ==
    LET occ == all_occurences(nodes)
        public_names == MemberNames(ExportPublicMembers(nodes))
    IN  CASE Len(occ) = 0 ->
               IF public_names # <<>>
               THEN MkFinding(Root, "There is no __all__ at the end of file", TRUE,
                              refactor_append(Root, nodes))
               ELSE NoFinding
          [] Len(occ) = 1 ->
               LET variable_last == nodes[Len(nodes)]
                   variable_all == occ[1]
                   \* tuple() when the assigned node is a call
                   all_members == IF variable_all.name = "tuple" THEN <<>>
                                  ELSE variable_all.elts
               IN  IF public_names = <<>>
                   THEN MkFinding(variable_all, "There shall be no __all__", TRUE,
                                  refactor_remove(variable_all))
                   ELSE IF ~(variable_last.kind = "Assign"
                             /\ variable_last.names[1] = "__all__")
                   THEN MkFinding(variable_all, "__all__ is not at the end of file", TRUE,
                                  refactor_move(variable_all, nodes))
                   ELSE IF variable_all.name \notin {"tuple", "Tuple"}
                   THEN MkFinding(variable_all, "__all__ shall be tuple", TRUE,
                                  refactor_replace(variable_all, nodes))
                   ELSE IF public_names = all_members THEN NoFinding
                   ELSE IF \E i \in 1..Len(all_members) :
                              \A j \in 1..Len(public_names) : public_names[j] # all_members[i]
                   THEN MkFinding(variable_all, "__all__ points on non-existing member", TRUE,
                                  refactor_replace(variable_all, nodes))
                   ELSE IF Len(public_names) < Len(all_members)
                   THEN MkFinding(variable_all, "__all__ contains more members", TRUE,
                                  refactor_replace(variable_all, nodes))
                   ELSE IF Len(public_names) > Len(all_members)
                   THEN MkFinding(variable_all, "__all__ does not contain all members", TRUE,
                                  refactor_replace(variable_all, nodes))
                   ELSE MkFinding(variable_all, "__all__ is not alphabetically sorted", TRUE,
                                  refactor_replace(variable_all, nodes))
          [] OTHER ->
               MkFinding(occ[1], "There is multiple assignments to __all__", TRUE,
                         refactor_remove(occ[1]))

ExportRunCheck(file_name, nodes) ==
    IF file_name = "__init__.py" THEN check_init(nodes) ELSE check_regular(nodes)

(***************************************************************************)
(* CheckAnnotations (id "annotations").                                    *)
(***************************************************************************)
refactor_apend_return_annotation(st_elm) ==
    Tx(st_elm, <<Ins("annotate", st_elm, <<>>, st_elm.lineno, BodyLineno(st_elm))>>)

refactor_apend_import(st_elm) ==
    Tx(st_elm, <<Ins("insert_bellow", st_elm, <<E_FUT2>>, 0, 0)>>)

refactor_prepend_import(st_elm) ==
    Tx(st_elm, <<Ins("insert_above", st_elm, <<E_FUT2>>, 0, 0)>>)

from_future_import_annotations(nodes) ==
    SelectSeq(nodes, LAMBDA n :
        n.kind = "ImportFrom" /\ n.name = "__future__"
        /\ \E i \in 1..Len(n.names) : n.names[i] = "annotations")

check_return_annotations(nodes) ==
    LET missing == SelectSeq(nodes, LAMBDA n : n.kind = "Function" /\ ~n.returns)
    IN  IF missing # <<>>
        THEN MkFinding(missing[1], "There is missing -> None return annotation", FALSE,
                       refactor_apend_return_annotation(missing[1]))
        ELSE NoFinding

check_future_import_annotations(nodes) ==
    IF from_future_import_annotations(nodes) = <<>>
    THEN LET node == IF Len(nodes) > 0 THEN nodes[1] ELSE Root
         IN  MkFinding(node, "There shall be import of annotations from __future__", FALSE,
                       IF node.kind = "String"
                       THEN refactor_apend_import(node)
                       ELSE refactor_prepend_import(node))
    ELSE NoFinding

AnnotationsRunCheck(nodes) ==
    IF check_return_annotations(nodes) # NoFinding
    THEN check_return_annotations(nodes)
    ELSE check_future_import_annotations(nodes)

\* ll.startswith("#"): the vocabulary has no comment-only line
IsCommentLine(line) == FALSE

\* ll.endswith("):")
EndsParenColon(line) == line = L_DEF

\* last_line[:-2] + ") -> None:\n"
AppendNone(line) == IF line = L_DEF THEN L_DEFOK ELSE line

\* line_no when `for line_no in reversed(range(lo, hi))` ends: the first line,
\* scanning down from hi - 1, that is no comment and ends in "):", else lo
RECURSIVE ScanStop(_, _, _)
ScanStop(buf, k, lo) ==
    IF ~IsCommentLine(buf[k]) /\ EndsParenColon(buf[k]) THEN k
    ELSE IF k <= lo THEN k
    ELSE ScanStop(buf, k - 1, lo)

(***************************************************************************)
(* CheckImports (id "imports").                                            *)
(***************************************************************************)
IsImport(n) == n.kind \in {"Import", "ImportFrom"}

\* idx after `for idx, node in enumerate(seq): if <flag>: break`, 0-based;
\* -1 stands for "idx was never bound" (empty seq)
LoopIndex(flags) ==
    IF flags = <<>> THEN -1
    ELSE IF \E i \in 1..Len(flags) : flags[i]
    THEN (CHOOSE i \in 1..Len(flags) : flags[i] /\ \A j \in 1..(i - 1) : ~flags[j]) - 1
    ELSE Len(flags) - 1

\* the import statements in a function's body, as nodes
Nested(n) ==
    IF n.kind # "Function" THEN <<>>
    ELSE LET at == SelectSeq([k \in 1..Len(n.elts) |-> k],
                             LAMBDA k : n.elts[k] \in ImportLines)
         IN  [i \in 1..Len(at) |->
                 MkNode("Import", n.lineno + at[i], n.lineno + at[i], "",
                        ParseImport(n.elts[at[i]]).names, <<>>, FALSE)]

\* SyntaxTreeElement.__iter__: each node, then the nodes it holds
RECURSIVE Walk(_)
Walk(nodes) ==
    IF nodes = <<>> THEN <<>>
    ELSE <<Head(nodes)>> \o Nested(Head(nodes)) \o Walk(Tail(nodes))

prepare_nodes(root) ==
    LET idx1 == LoopIndex([i \in 1..Len(root) |-> root[i].kind # "String"])
        nodes == PyTail(root, idx1)
        flags == [i \in 1..Len(nodes) |-> ~IsImport(nodes[i])]
        idx2 == LoopIndex(flags)
        imports == PyHead(nodes, idx2)
    IN  [nodes |-> nodes,
         imports_only |-> \A i \in 1..Len(flags) : ~flags[i],
         imports |-> imports,
         \* list(self.st.root) after imports[-1]: every node, nested ones too
         rest |-> IF imports # <<>> THEN Walk(PyTail(nodes, Len(imports))) ELSE <<>>]

\* len(lines[0]) - len(lines[0].lstrip())
Indent(line) == IF line \in {L_BODY, L_ALLX, L_ALLY, L_BIMP} THEN 4 ELSE 0

\* line[indent:]
Unindent(line, indent) ==
    IF indent = 0 THEN line
    ELSE IF line = L_BODY THEN "pass"
    ELSE IF line = L_ALLX THEN "\"x\","
    ELSE IF line = L_ALLY THEN "\"y\","
    ELSE IF line = L_BIMP THEN "import os"
    ELSE line

refactor_move_to_imports(st_elm, imports, snapshot) ==
    LET lines == NodeLines(snapshot, st_elm)
        indent == Indent(lines[1])
    IN  Tx(imports[Len(imports)],
           <<Ins("remove", st_elm, <<>>, 0, 0),
             Ins("insert_bellow", imports[Len(imports)],
                 [i \in 1..Len(lines) |-> Unindent(lines[i], indent)], 0, 0)>>)

refactor_split_into_more_lines(st_elm) ==
    Tx(st_elm, <<Ins("replace", st_elm,
                     [i \in 1..Len(st_elm.names) |-> ImportLine(st_elm.names[i])], 0, 0)>>)

\* names of a list without repetition, sorted: sorted(set(names))
RECURSIVE DedupNames(_)
DedupNames(names) ==
    IF names = <<>> THEN <<>>
    ELSE LET init == DedupNames(SubSeq(names, 1, Len(names) - 1))
             last == names[Len(names)]
         IN  IF \E i \in 1..Len(init) : init[i] = last THEN init ELSE Append(init, last)

SortedNameSet(names) ==
    LET recs == SortByName([i \in 1..Len(DedupNames(names)) |->
                               [name |-> DedupNames(names)[i]]])
    IN  [i \in 1..Len(recs) |-> recs[i].name]

refactor_merge_import_from(st_elm, fix_data) ==
    Tx(st_elm,
       <<Ins("remove", fix_data, <<>>, 0, 0),
         Ins("replace", st_elm,
             <<FromLine(st_elm.name, SortedNameSet(st_elm.names \o fix_data.names))>>, 0, 0)>>)

\* the module names of the vocabulary
ModuleNames == {"__future__", ".r", "m", "os", "sys", "cm"}

\* name.startswith(".")
StartsWithDot(name) == name = ".r"

\* name.startswith(prefix), for the prefixes that are configured
StartsWith(name, prefix) == name = "cm" /\ prefix = "cm"

\* kwargs["custom_modules"]: the run is configured with `-m cm`
custom_modules == <<"cm">>

\* faulty variant of SortKey: every module is put into the last bucket
SortKeyUnbucketed(node) ==
    "3_" \o (IF node.kind = "ImportFrom" THEN node.name ELSE node.names[1])

\* the key _check_imports_sort gives a node: bucket digit, "_", module name
SortKey(node) ==
    LET name == IF node.kind = "ImportFrom" THEN node.name ELSE node.names[1]
    IN  IF StartsWithUnderscore(name) THEN "0_" \o name
        ELSE IF StartsWithDot(name) THEN "1_" \o name
        ELSE IF \E k \in 1..Len(custom_modules) : StartsWith(name, custom_modules[k])
             THEN "2_" \o name
        ELSE "3_" \o name

\* key[0]
Bucket(key) ==
    CASE key \in {"0_" \o m : m \in ModuleNames} -> "0"
      [] key \in {"1_" \o m : m \in ModuleNames} -> "1"
      [] key \in {"2_" \o m : m \in ModuleNames} -> "2"
      [] OTHER -> "3"

\* list(dict(pairs).items()): one entry per key, at the key's first place,
\* holding the key's last value
RECURSIVE DictItems(_)
DictItems(pairs) ==
    IF pairs = <<>> THEN <<>>
    ELSE LET init == DictItems(SubSeq(pairs, 1, Len(pairs) - 1))
             last == pairs[Len(pairs)]
         IN  IF \E i \in 1..Len(init) : init[i].name = last.name
             THEN [i \in 1..Len(init) |->
                      IF init[i].name = last.name THEN last ELSE init[i]]
             ELSE Append(init, last)

RECURSIVE SortSuggestedFix(_, _, _)
SortSuggestedFix(sorted, key_old, snapshot) ==
    IF sorted = <<>> THEN <<>>
    ELSE LET key == Head(sorted).name IN
         (IF Bucket(key) # key_old THEN <<L_BLANK>> ELSE <<>>)
             \o NodeLines(snapshot, Head(sorted).node)
             \o SortSuggestedFix(Tail(sorted), Bucket(key), snapshot)

refactor_sort_modules(st_elm, fix_data, imports) ==
    Tx(st_elm, <<Ins("replace_lines", st_elm, fix_data,
                     imports[1].lineno, imports[Len(imports)].end_lineno)>>)

refactor_sort_imported_from_items(st_elm, fix_data) ==
    Tx(st_elm, <<Ins("replace", st_elm, fix_data, 0, 0)>>)

check_imports_at_beginning(p, snapshot) ==
    LET found == SelectSeq(p.rest, IsImport)
    IN  IF ~p.imports_only /\ found # <<>>
        THEN MkFinding(found[1], "Found import inside script body", FALSE,
                       refactor_move_to_imports(found[1], p.imports, snapshot))
        ELSE NoFinding

check_imports_one_name_per_line(p) ==
    LET found == SelectSeq(p.imports, LAMBDA n : n.kind = "Import" /\ Len(n.names) > 1)
    IN  IF found # <<>>
        THEN MkFinding(found[1], "Found import with multiple modules on one line", FALSE,
                       refactor_split_into_more_lines(found[1]))
        ELSE NoFinding

check_imports_one_from_only_once(p) ==
    LET imports == SelectSeq(p.imports, LAMBDA n : n.kind = "ImportFrom")
        Same(node) == SelectSeq(imports, LAMBDA n : n.name = node.name)
        found == SelectSeq(imports, LAMBDA n : Len(Same(n)) # 1)
    IN  IF found # <<>>
        THEN MkFinding(found[1], "There seems to be import from on multiple places", FALSE,
                       refactor_merge_import_from(found[1], Same(found[1])[2]))
        ELSE NoFinding

check_imports_sort(p, snapshot) ==
    LET pairs == [i \in 1..Len(p.imports) |->
                     [name |-> SortKey(p.imports[i]), node |-> p.imports[i]]]
    IN  Let(SortByName(DictItems(pairs)), LAMBDA sorted :
            IF pairs # sorted
            THEN LET node == sorted[Len(sorted)].node
                 IN  MkFinding(node, "Import seems not to be alphabetically sorted", FALSE,
                               refactor_sort_modules(node,
                                   SortSuggestedFix(sorted, "0", snapshot), p.imports))
            ELSE NoFinding)

check_imports_from_sort(p) ==
    LET imports == SelectSeq(p.imports, LAMBDA n : n.kind = "ImportFrom")
        found == SelectSeq(imports, LAMBDA n : n.names # SortedNameSet(n.names))
    IN  IF found # <<>>
        THEN MkFinding(found[1], "Elements imported from module seems not to be sorted",
                       FALSE,
                       refactor_sort_imported_from_items(found[1],
                           <<FromLine(found[1].name, SortedNameSet(found[1].names))>>))
        ELSE NoFinding

\* the first finding among the five checks, in run_check's order
FirstOf(fs) ==
    IF \E i \in 1..Len(fs) : fs[i] # NoFinding
    THEN fs[CHOOSE i \in 1..Len(fs) : fs[i] # NoFinding /\ \A j \in 1..(i - 1) : fs[j] = NoFinding]
    ELSE NoFinding

ImportsRunCheck(root, snapshot) ==
    Let(prepare_nodes(root), LAMBDA p :
        FirstOf(<<check_imports_at_beginning(p, snapshot),
                  check_imports_one_name_per_line(p),
                  check_imports_one_from_only_once(p),
                  check_imports_sort(p, snapshot),
                  check_imports_from_sort(p)>>))

(***************************************************************************)
(* check_rules: the registered rules in the order of dir(rules_checker).   *)
(***************************************************************************)
RuleOrder == <<"CheckAllAtTheEnd", "CheckAnnotations", "CheckImports">>

\* what rule number r finds on the tree of `snapshot`
RunCheck(r, file_name, snapshot) ==
    Let(Parse(snapshot), LAMBDA nodes :
        CASE RuleOrder[r] = "CheckAllAtTheEnd" -> ExportRunCheck(file_name, nodes)
          [] RuleOrder[r] = "CheckAnnotations" -> AnnotationsRunCheck(nodes)
          [] RuleOrder[r] = "CheckImports" -> ImportsRunCheck(nodes, snapshot))

(***************************************************************************)
(* One resolver operation applied to the buffer.                           *)
(***************************************************************************)
\* the operations that call _range, and the node whose span they take
NeedsRange(ins) == ins.op \in {"remove", "replace", "insert_bellow"}

RangeTarget(ins, anchor) == IF ins.op = "insert_bellow" THEN anchor ELSE ins.node

\* _refactor_apend_return_annotation, inside its transaction: the range
\* scanned is empty, so `last_line` is never bound and reading it raises
\* UnboundLocalError
AnnotateUnbound(ins) == ins.hi <= ins.lo

AnnotateFound(buf, ins) ==
    /\ ~AnnotateUnbound(ins)
    /\ EndsParenColon(buf[ScanStop(buf, ins.hi - 1, ins.lo)])

Annotate(buf, ins) ==
    LET line_no == ScanStop(buf, ins.hi - 1, ins.lo)
    IN  IF AnnotateFound(buf, ins)
        THEN [buf EXCEPT ![line_no] = AppendNone(buf[line_no])]
        ELSE buf

ApplyIns(buf, ins, anchor) ==
    CASE ins.op = "remove" -> remove(buf, ins.node)
      [] ins.op = "replace" -> replace(buf, ins.lines, ins.node)
      [] ins.op = "replace_lines" -> replace_lines(buf, ins.lines, ins.lo, ins.hi)
      [] ins.op = "insert_above" -> insert_above(buf, ins.lines, anchor)
      [] ins.op = "insert_bellow" -> insert_bellow(buf, ins.lines, anchor)
      [] ins.op = "append_to_end" -> append_to_end(buf, ins.lines)
      [] ins.op = "annotate" -> Annotate(buf, ins)

(***************************************************************************)
(* The program state.                                                      *)
(***************************************************************************)
VARIABLES
    refactor,     \* the --refactor option (kwargs["refactor"])
    autoformat,   \* the --autoformat flag
    plugin,       \* a further registered rule, or NoPlugin
    try_idx,      \* main's loop variable
    pc,           \* where the process is
    file_idx,     \* run_checker's position in the file list
    failures,     \* run_checker's list of failure batches
    exit_status,  \* <<>>, or <<n>> once the process ended with status n
    disk,         \* the content of each target file
    tmp,          \* the content of the temporary file, or NoFile
    st_lines,     \* st.file_info.lines: the FileSnapshot of the current tree
    rule_idx,     \* check_rules' position in the rule list
    rows,         \* the finding's report rows (rich_rows)
    prog,         \* what is left of the running fix callback
    resolver,     \* the open _LinesResolver, or NoResolver
    disk0,        \* history: the file contents when the process started
    fix_calls,    \* history: fix callbacks invoked so far
    fixes_in_pass,\* history: fix callbacks invoked in the current pass
    resolve_calls,\* history: resolve_finding calls for the current file in this pass
    last_tx,      \* history: the most recent transaction exit
    span0,        \* history: what the current finding's fix did on a node of span (0, 0)
    reloads       \* history: trees built by reload since the rule captured its nodes

vars == <<refactor, autoformat, plugin, try_idx, pc, file_idx, failures, exit_status, disk, tmp,
          st_lines, rule_idx, rows, prog, resolver, disk0, fix_calls, fixes_in_pass, resolve_calls,
          last_tx, span0, reloads>>

NoFile == <<"<no file>">>
NoResolver == [open |-> FALSE, anchor |-> Root, original |-> <<>>, lines |-> <<>>]
NoPlugin == [op |-> "none", target |-> "none", lines |-> <<>>]
NoTx == [noop |-> FALSE, wrote |-> FALSE, reloaded |-> FALSE]

Files == 1..NumFiles

\* the name of the i-th target file
FileName(i) == IF i = 1 THEN "__init__.py" ELSE "mod.py"

\* the file contents the runs start from
InitialContents ==
    { <<>>,
      <<L_FUT>>,
      <<L_FUT, L_BLANK>>,
      <<L_DOC>>,
      <<L_FUT, L_X>>,
      <<L_FUT, L_ALLO, L_ALLX, L_CLOSE, L_X>>,
      <<L_FUT, L_ALLO, L_ALLX, L_CLOSE>>,
      <<L_FUT, L_DEF, L_BODY>>,
      <<L_FUT, L_DEFSP, L_BODY>>,
      <<L_FUT, L_DEF1>>,
      <<L_DEF, L_BODY>>,
      <<L_FUT, L_DEFOK, L_BODY, L_FUT>> }

(***************************************************************************)
(* Faulty variants of definitions below.  Each property that rests on one   *)
(* of those definitions is also checked with the variant in its place,     *)
(* where it has to fail.                                                   *)
(***************************************************************************)
\* the fix callback never runs
RefactorNever(n) == FALSE

\* the comparison with the attempt bound never succeeds
IsLastTryNever(t, n) == FALSE

\* the fix callback runs whatever the option says
RefactorAlways(n) == TRUE

\* __exit__ leaves the tree as it was
exitKeepsSnapshot(content, old_snapshot) == old_snapshot

\* the finding is swallowed once it was handled
PropagateDrops(fs, batch) == fs

\* a later report starts a batch of its own
addToFreshBatch(rich_rows, item) == <<item>>

\* run_checker records the finding and checks the same file once more
FindingRetriesFile ==
    /\ pc = "raise"
    /\ failures' = Append(failures, rows)
    /\ rows' = <<>>
    /\ rule_idx' = 1
    /\ pc' = "check_rules"
    /\ UNCHANGED <<refactor, autoformat, plugin, try_idx, file_idx, exit_status, disk,
                   tmp, st_lines, prog, resolver, disk0, fix_calls, fixes_in_pass,
                   resolve_calls, last_tx, span0, reloads>>

\* check_rules swallows the finding and goes on with the next rule
FindingSwallowed ==
    /\ pc = "raise"
    /\ rule_idx' = rule_idx + 1
    /\ pc' = "check_rules"
    /\ UNCHANGED <<refactor, autoformat, plugin, try_idx, file_idx, failures,
                   exit_status, disk, tmp, st_lines, rows, prog, resolver, disk0,
                   fix_calls, fixes_in_pass, resolve_calls, last_tx, span0, reloads>>

\* max(kwargs["refactor"], 1)
LastTry(n) == Max(n, 1)

(***************************************************************************)
(* `python -m black file`, as far as it shows on the vocabulary: the       *)
(* docstring's quotes become double quotes, a top-level def gets two blank *)
(* lines above it unless it opens the file, and blank lines at the end of  *)
(* the file go; releases from 24 on also put one blank line after the      *)
(* module docstring.  Either release may be the one installed.             *)
(***************************************************************************)
BlackLine(line) == IF line = L_DOC THEN L_DOCQ ELSE line

RECURSIVE StripTrailingBlank(_)
StripTrailingBlank(s) ==
    IF s # <<>> /\ s[Len(s)] = L_BLANK
    THEN StripTrailingBlank(SubSeq(s, 1, Len(s) - 1))
    ELSE s

BlankAfterDocstring(s) ==
    IF Len(s) >= 2 /\ s[1] = L_DOCQ /\ s[2] # L_BLANK
    THEN <<s[1], L_BLANK>> \o Tail(s)
    ELSE s

RECURSIVE BlankAboveDef(_, _)
BlankAboveDef(done, rest) ==
    IF rest = <<>> THEN done
    ELSE IF Head(rest) \in DefLines
         THEN LET above == StripTrailingBlank(done)
              IN  BlankAboveDef((IF above = <<>> THEN <<>>
                                 ELSE above \o <<L_BLANK, L_BLANK>>) \o <<Head(rest)>>,
                                Tail(rest))
         ELSE BlankAboveDef(Append(done, Head(rest)), Tail(rest))

Black(content) ==
    LET quoted == [k \in 1..Len(content) |-> BlackLine(content[k])]
        base == StripTrailingBlank(BlankAboveDef(<<>>, quoted))
    IN  {base, BlankAfterDocstring(base)}

\* `if try_idx == kwargs["refactor"]`
IsLastTry(t, n) == t = n

\* `if self.args["refactor"]`
RefactorEnabled(n) == n # 0

\* SyntaxTree.__init__ and SyntaxTree.reload: the snapshot is read from disk
reload(content, old_snapshot) == content

\* __exit__, after the move: self.st.reload()
reload_after_move(content, old_snapshot) == reload(content, old_snapshot)

\* run_checker: failures.append(Group(*e.rich_rows))
Propagate(fs, batch) == Append(fs, batch)

\* RulesCheckerFindingReportedError.add, reached through report(), which
\* hands every report after the first a clone sharing finding_report
add(rich_rows, item) == Append(rich_rows, item)

\* report_finding: the rows of the first report, which raises on leaving
ReportRows(f) ==
    <<R_REPORTED, f.msg>> \o (IF f.suggest THEN <<R_SUGGEST>> ELSE <<>>) \o <<R_END>>

NumRules == Len(RuleOrder) + (IF plugin = NoPlugin THEN 0 ELSE 1)

\* a rule registered besides the three, reporting one node with a callback
\* that applies one resolver operation to it, with no line or one blank line
PluginRunCheck(snapshot) ==
    LET nodes == Parse(snapshot)
        node == IF plugin.target = "root" \/ nodes = <<>> THEN Root ELSE nodes[1]
    IN  MkFinding(node, "plugin finding", FALSE,
                  Tx(node, <<Ins(plugin.op, node, plugin.lines, 0, 0)>>))

CurrentFinding ==
    IF rule_idx <= Len(RuleOrder)
    THEN RunCheck(rule_idx, FileName(file_idx), st_lines)
    ELSE PluginRunCheck(st_lines)

Init ==
    /\ refactor \in 0..MaxRefactor
    /\ autoformat \in BOOLEAN
    /\ plugin = NoPlugin
    /\ try_idx = 1
    /\ pc = "main"
    /\ file_idx = 1
    /\ failures = <<>>
    /\ exit_status = <<>>
    /\ disk \in [Files -> InitialContents]
    /\ disk0 = disk
    /\ tmp = NoFile
    /\ st_lines = <<>>
    /\ rule_idx = 1
    /\ rows = <<>>
    /\ prog = <<>>
    /\ resolver = NoResolver
    /\ fix_calls = 0
    /\ fixes_in_pass = 0
    /\ resolve_calls = 0
    /\ last_tx = NoTx
    /\ span0 = "none"
    /\ reloads = 0

(***************************************************************************)
(* main: one iteration of `for try_idx in range(1, max(refactor, 1) + 1)`. *)
(***************************************************************************)
MainIterate ==
    /\ pc = "main"
    /\ pc' = "run_checker"
    /\ failures' = <<>>
    /\ file_idx' = 1
    /\ fixes_in_pass' = 0
    /\ resolve_calls' = 0
    /\ UNCHANGED <<refactor, autoformat, plugin, try_idx, exit_status, disk, tmp,
                   st_lines, rule_idx, rows, prog, resolver, disk0, fix_calls, last_tx,
                   span0, reloads>>

\* run_checker: st = SyntaxTree(file) for the next file
LoadFile ==
    /\ pc = "run_checker"
    /\ file_idx <= NumFiles
    /\ IF ParseOk(disk[file_idx])
       THEN /\ st_lines' = reload(disk[file_idx], st_lines)
            /\ rule_idx' = 1
            /\ pc' = "check_rules"
            /\ UNCHANGED exit_status
       ELSE /\ pc' = "traceback"
            /\ exit_status' = <<1>>
            /\ UNCHANGED <<st_lines, rule_idx>>
    /\ reloads' = 0
    /\ resolve_calls' = 0
    /\ UNCHANGED <<refactor, autoformat, plugin, try_idx, file_idx, failures, disk, tmp,
                   rows, prog, resolver, disk0, fix_calls, fixes_in_pass, last_tx,
                   span0>>

\* run_checker: all files done, `return failures`
RunCheckerReturns ==
    /\ pc = "run_checker"
    /\ file_idx > NumFiles
    /\ pc' = "main_check"
    /\ UNCHANGED <<refactor, autoformat, plugin, try_idx, file_idx, failures,
                   exit_status, disk, tmp, st_lines, rule_idx, rows, prog, resolver,
                   disk0, fix_calls, fixes_in_pass, resolve_calls, last_tx, span0,
                   reloads>>

\* check_rules: rc.run_check() returns without a finding
RulePassed ==
    /\ pc = "check_rules"
    /\ rule_idx <= NumRules
    /\ CurrentFinding = NoFinding
    /\ rule_idx' = rule_idx + 1
    /\ UNCHANGED <<refactor, autoformat, plugin, try_idx, pc, file_idx, failures,
                   exit_status, disk, tmp, st_lines, rows, prog, resolver, disk0,
                   fix_calls, fixes_in_pass, resolve_calls, last_tx, span0,
                   reloads>>

\* check_rules returns: every rule passed on this file
FileChecked ==
    /\ pc = "check_rules"
    /\ rule_idx > NumRules
    /\ ~autoformat
    /\ file_idx' = file_idx + 1
    /\ pc' = "run_checker"
    /\ UNCHANGED <<refactor, autoformat, plugin, try_idx, failures, exit_status, disk,
                   tmp, st_lines, rule_idx, rows, prog, resolver, disk0, fix_calls,
                   fixes_in_pass, resolve_calls, last_tx, span0,
                   reloads>>

\* check_rules returns and `if autoformat`: black rewrites the file in place
FileFormatted ==
    /\ pc = "check_rules"
    /\ rule_idx > NumRules
    /\ autoformat
    /\ \E formatted \in Black(disk[file_idx]) :
           disk' = [disk EXCEPT ![file_idx] = formatted]
    /\ file_idx' = file_idx + 1
    /\ pc' = "run_checker"
    /\ UNCHANGED <<refactor, autoformat, plugin, try_idx, failures, exit_status, tmp,
                   st_lines, rule_idx, rows, prog, resolver, disk0, fix_calls,
                   fixes_in_pass, resolve_calls, last_tx, span0,
                   reloads>>

\* resolve_finding: report_finding(st_elm, txt) opens the batch and raises
ReportFinding ==
    /\ pc = "check_rules"
    /\ rule_idx <= NumRules
    /\ CurrentFinding # NoFinding
    /\ rows' = ReportRows(CurrentFinding)
    /\ prog' = CurrentFinding.prog
    /\ pc' = "resolve"
    /\ resolve_calls' = resolve_calls + 1
    /\ UNCHANGED <<refactor, autoformat, plugin, try_idx, file_idx, failures,
                   exit_status, disk, tmp, st_lines, rule_idx, resolver, disk0,
                   fix_calls, fixes_in_pass, last_tx, span0,
                   reloads>>

\* resolve_finding's except clause, check-only: `raise` at once
ResolveCheckOnly ==
    /\ pc = "resolve"
    /\ ~RefactorEnabled(refactor)
    /\ prog' = <<>>
    /\ pc' = "raise"
    /\ UNCHANGED <<refactor, autoformat, plugin, try_idx, file_idx, failures,
                   exit_status, disk, tmp, st_lines, rule_idx, rows, resolver, disk0,
                   fix_calls, fixes_in_pass, resolve_calls, last_tx, span0,
                   reloads>>

\* resolve_finding's except clause, refactor mode: refactor(st_elm) is called
ResolveRefactor ==
    /\ pc = "resolve"
    /\ RefactorEnabled(refactor)
    /\ pc' = "fix"
    /\ fix_calls' = fix_calls + 1
    /\ fixes_in_pass' = fixes_in_pass + 1
    /\ UNCHANGED resolve_calls
    /\ UNCHANGED <<refactor, autoformat, plugin, try_idx, file_idx, failures,
                   exit_status, disk, tmp, st_lines, rule_idx, rows, prog, resolver,
                   disk0, last_tx, span0,
                   reloads>>

(***************************************************************************)
(* The patch transaction.                                                  *)
(***************************************************************************)
\* _LinesResolver.__enter__: the file is read into original and into the buffer
TxEnter ==
    /\ pc = "fix"
    /\ prog # <<>>
    /\ Head(prog).op = "enter"
    /\ resolver' = [open |-> TRUE, anchor |-> Head(prog).node,
                    original |-> disk[file_idx], lines |-> disk[file_idx]]
    /\ prog' = Tail(prog)
    /\ UNCHANGED <<refactor, autoformat, plugin, try_idx, pc, file_idx, failures,
                   exit_status, disk, tmp, st_lines, rule_idx, rows, disk0, fix_calls,
                   fixes_in_pass, resolve_calls, last_tx, span0,
                   reloads>>

\* one resolver operation of the callback; its assertion, if any, holds
TxOp ==
    /\ pc = "fix"
    /\ prog # <<>>
    /\ Head(prog).op \notin {"enter", "exit"}
    /\ NeedsRange(Head(prog)) => RangeOk(RangeTarget(Head(prog), resolver.anchor))
    /\ Head(prog).op = "insert_above" => RangeWithZeroOk(resolver.anchor)
    /\ Head(prog).op = "annotate" => ~AnnotateUnbound(Head(prog))
    /\ resolver' = [resolver EXCEPT !.lines = ApplyIns(@, Head(prog), resolver.anchor)]
    \* no line ending in "):" was found: refactor_none adds its row to the
    \* report of the finding (self.report returns a clone, which does not raise)
    /\ rows' = IF Head(prog).op = "annotate" /\ ~AnnotateFound(resolver.lines, Head(prog))
               THEN add(rows, R_UNAVAILABLE)
               ELSE rows
    /\ span0' = IF Head(prog).op \in {"remove", "replace", "insert_above", "insert_bellow"}
                   /\ RangeTarget(Head(prog), resolver.anchor).lineno = 0
                   /\ RangeTarget(Head(prog), resolver.anchor).end_lineno = 0
                THEN (IF resolver'.lines # resolver.lines THEN "mutated" ELSE "kept")
                ELSE span0
    /\ prog' = Tail(prog)
    /\ UNCHANGED <<refactor, autoformat, plugin, try_idx, pc, file_idx, failures,
                   exit_status, disk, tmp, st_lines, rule_idx, disk0, fix_calls,
                   fixes_in_pass, resolve_calls, last_tx, reloads>>

\* _refactor_apend_return_annotation on a definition whose body starts on
\* the definition line: UnboundLocalError leaves the with block, __exit__
\* sees exc_type and does nothing, no handler catches the error, and the
\* interpreter ends with a traceback
AnnotateRaises ==
    /\ pc = "fix"
    /\ prog # <<>>
    /\ Head(prog).op = "annotate"
    /\ AnnotateUnbound(Head(prog))
    /\ pc' = "traceback"
    /\ exit_status' = <<1>>
    /\ resolver' = NoResolver
    /\ UNCHANGED <<refactor, autoformat, plugin, try_idx, file_idx, failures, disk, tmp,
                   st_lines, rule_idx, rows, prog, disk0, fix_calls, fixes_in_pass, resolve_calls,
                   last_tx, span0,
                   reloads>>

\* _LinesResolver.__exit__ without an exception: the report row, then the
\* buffer is written to a NamedTemporaryFile (delete=False) and closed
TxExit ==
    /\ pc = "fix"
    /\ prog # <<>>
    /\ Head(prog).op = "exit"
    /\ last_tx' = [noop |-> resolver.lines = resolver.original,
                   wrote |-> FALSE, reloaded |-> FALSE]
    /\ IF ResolverDiffers(resolver.lines, resolver.original)
       THEN /\ rows' = add(rows, R_WRITE)
            /\ tmp' = WriteLines(resolver.lines)
            /\ pc' = "tmp"
            /\ UNCHANGED <<prog, resolver>>
       ELSE /\ rows' = add(rows, R_NOCHANGE)
            /\ prog' = Tail(prog)
            /\ resolver' = NoResolver
            /\ UNCHANGED <<tmp, pc>>
    /\ UNCHANGED <<refactor, autoformat, plugin, try_idx, file_idx, failures,
                   exit_status, disk, st_lines, rule_idx, disk0, fix_calls,
                   fixes_in_pass, resolve_calls, span0,
                   reloads>>

\* shutil.move(f.name, file): os.rename succeeds and replaces the target
MoveRename ==
    /\ pc = "tmp"
    /\ disk' = [disk EXCEPT ![file_idx] = tmp]
    /\ tmp' = NoFile
    /\ last_tx' = [last_tx EXCEPT !.wrote = TRUE]
    /\ pc' = "reload"
    /\ UNCHANGED <<refactor, autoformat, plugin, try_idx, file_idx, failures,
                   exit_status, st_lines, rule_idx, rows, prog, resolver, disk0,
                   fix_calls, fixes_in_pass, resolve_calls, span0,
                   reloads>>

\* shutil.move: os.rename raises OSError (the temporary directory is on
\* another filesystem), so the temporary file is copied: the target is
\* opened for writing, which truncates it
MoveCopyOpen ==
    /\ pc = "tmp"
    /\ disk' = [disk EXCEPT ![file_idx] = <<>>]
    /\ last_tx' = [last_tx EXCEPT !.wrote = TRUE]
    /\ pc' = "copy"
    /\ UNCHANGED <<refactor, autoformat, plugin, try_idx, file_idx, failures,
                   exit_status, tmp, st_lines, rule_idx, rows, prog, resolver, disk0,
                   fix_calls, fixes_in_pass, resolve_calls, span0,
                   reloads>>

\* shutil.move, copying: the content is written to the target
MoveCopyData ==
    /\ pc = "copy"
    /\ disk' = [disk EXCEPT ![file_idx] = tmp]
    /\ pc' = "copied"
    /\ UNCHANGED <<refactor, autoformat, plugin, try_idx, file_idx, failures,
                   exit_status, tmp, st_lines, rule_idx, rows, prog, resolver, disk0,
                   fix_calls, fixes_in_pass, resolve_calls, last_tx, span0,
                   reloads>>

\* shutil.move, copying: os.unlink(src)
MoveCopyUnlink ==
    /\ pc = "copied"
    /\ tmp' = NoFile
    /\ pc' = "reload"
    /\ UNCHANGED <<refactor, autoformat, plugin, try_idx, file_idx, failures,
                   exit_status, disk, st_lines, rule_idx, rows, prog, resolver, disk0,
                   fix_calls, fixes_in_pass, resolve_calls, last_tx, span0,
                   reloads>>

\* __exit__: self.st.reload(), and the with block is left
Reload ==
    /\ pc = "reload"
    /\ IF ParseOk(disk[file_idx])
       THEN /\ st_lines' = reload_after_move(disk[file_idx], st_lines)
            /\ last_tx' = [last_tx EXCEPT !.reloaded = TRUE]
            /\ reloads' = reloads + 1
            /\ prog' = Tail(prog)
            /\ pc' = "fix"
            /\ UNCHANGED exit_status
       ELSE /\ pc' = "traceback"
            /\ exit_status' = <<1>>
            /\ UNCHANGED <<st_lines, last_tx, prog, reloads>>
    /\ resolver' = NoResolver
    /\ UNCHANGED <<refactor, autoformat, plugin, try_idx, file_idx, failures, disk, tmp,
                   rule_idx, rows, disk0, fix_calls, fixes_in_pass, resolve_calls, span0>>

\* the process is killed while __exit__ commits
Crash ==
    /\ pc \in {"tmp", "copy", "copied", "reload"}
    /\ pc' = "crashed"
    /\ UNCHANGED <<refactor, autoformat, plugin, try_idx, file_idx, failures,
                   exit_status, disk, tmp, st_lines, rule_idx, rows, prog, resolver,
                   disk0, fix_calls, fixes_in_pass, resolve_calls, last_tx, span0,
                   reloads>>

\* the callback returns: resolve_finding's `raise`
FixReturns ==
    /\ pc = "fix"
    /\ prog = <<>>
    /\ pc' = "raise"
    /\ UNCHANGED <<refactor, autoformat, plugin, try_idx, file_idx, failures,
                   exit_status, disk, tmp, st_lines, rule_idx, rows, prog, resolver,
                   disk0, fix_calls, fixes_in_pass, resolve_calls, last_tx, span0,
                   reloads>>

\* the finding leaves check_rules (which prints it) and run_checker catches
\* it: the batch joins the failures and the next file follows
FindingPropagates ==
    /\ pc = "raise"
    /\ failures' = Propagate(failures, rows)
    /\ rows' = <<>>
    /\ file_idx' = file_idx + 1
    /\ span0' = "none"
    /\ pc' = "run_checker"
    /\ UNCHANGED <<refactor, autoformat, plugin, try_idx, exit_status, disk, tmp,
                   st_lines, rule_idx, prog, resolver, disk0, fix_calls, fixes_in_pass, resolve_calls,
                   last_tx, reloads>>

(***************************************************************************)
(* main, after run_checker returned.                                       *)
(***************************************************************************)
\* no failures: "SUCCESS", exit(0)
MainSuccess ==
    /\ pc = "main_check"
    /\ failures = <<>>
    /\ pc' = "done"
    /\ exit_status' = <<0>>
    /\ UNCHANGED <<refactor, autoformat, plugin, try_idx, file_idx, failures, disk, tmp,
                   st_lines, rule_idx, rows, prog, resolver, disk0, fix_calls,
                   fixes_in_pass, resolve_calls, last_tx, span0,
                   reloads>>

\* failures and try_idx == kwargs["refactor"]: exit(1)
MainFailure ==
    /\ pc = "main_check"
    /\ failures # <<>>
    /\ IsLastTry(try_idx, refactor)
    /\ pc' = "done"
    /\ exit_status' = <<1>>
    /\ UNCHANGED <<refactor, autoformat, plugin, try_idx, file_idx, failures, disk, tmp,
                   st_lines, rule_idx, rows, prog, resolver, disk0, fix_calls,
                   fixes_in_pass, resolve_calls, last_tx, span0,
                   reloads>>

\* failures, and the loop has another iteration
MainRetry ==
    /\ pc = "main_check"
    /\ failures # <<>>
    /\ ~IsLastTry(try_idx, refactor)
    /\ try_idx < LastTry(refactor)
    /\ try_idx' = try_idx + 1
    /\ pc' = "main"
    /\ UNCHANGED <<refactor, autoformat, plugin, file_idx, failures, exit_status, disk,
                   tmp, st_lines, rule_idx, rows, prog, resolver, disk0, fix_calls,
                   fixes_in_pass, resolve_calls, last_tx, span0,
                   reloads>>

\* failures, try_idx != kwargs["refactor"] and the loop is exhausted: main
\* returns, and the click command ends the process with status 0
MainFallsThrough ==
    /\ pc = "main_check"
    /\ failures # <<>>
    /\ ~IsLastTry(try_idx, refactor)
    /\ try_idx >= LastTry(refactor)
    /\ pc' = "done"
    /\ exit_status' = <<0>>
    /\ UNCHANGED <<refactor, autoformat, plugin, try_idx, file_idx, failures, disk, tmp,
                   st_lines, rule_idx, rows, prog, resolver, disk0, fix_calls,
                   fixes_in_pass, resolve_calls, last_tx, span0,
                   reloads>>

Next ==
    \/ MainIterate
    \/ LoadFile
    \/ RunCheckerReturns
    \/ RulePassed
    \/ FileChecked
    \/ FileFormatted
    \/ ReportFinding
    \/ ResolveCheckOnly
    \/ ResolveRefactor
    \/ TxEnter
    \/ TxOp
    \/ AnnotateRaises
    \/ TxExit
    \/ MoveRename
    \/ MoveCopyOpen
    \/ MoveCopyData
    \/ MoveCopyUnlink
    \/ Reload
    \/ Crash
    \/ FixReturns
    \/ FindingPropagates
    \/ MainSuccess
    \/ MainFailure
    \/ MainRetry
    \/ MainFallsThrough

Spec == Init /\ [][Next]_vars

(***************************************************************************)
(* The resolver under rules other than the three shipped ones: a rule      *)
(* registered besides them reports a node and hands one resolver operation *)
(* to resolve_finding.                                                     *)
(***************************************************************************)
PluginOps == {"remove", "replace", "insert_above", "insert_bellow"}

PluginTargets == {"root", "first"}

PluginLines == {<<>>, <<L_BLANK>>}

\* _range: the assertion fails.  AssertionError is not a
\* RulesCheckerFindingReportedError, so neither resolve_finding nor
\* check_rules nor run_checker catches it: __exit__ sees exc_type and does
\* nothing, and the interpreter ends with a traceback
TxAssertionError ==
    /\ pc = "fix"
    /\ prog # <<>>
    /\ NeedsRange(Head(prog))
    /\ ~RangeOk(RangeTarget(Head(prog), resolver.anchor))
    /\ pc' = "traceback"
    /\ exit_status' = <<1>>
    /\ span0' = "asserted"
    /\ resolver' = NoResolver
    /\ UNCHANGED <<refactor, autoformat, plugin, try_idx, file_idx, failures, disk, tmp,
                   st_lines, rule_idx, rows, prog, disk0, fix_calls, fixes_in_pass, resolve_calls,
                   last_tx, reloads>>

InitApi ==
    /\ refactor \in 0..MaxRefactor
    /\ autoformat \in BOOLEAN
    /\ plugin \in {NoPlugin} \cup [op : PluginOps, target : PluginTargets, lines : PluginLines]
    /\ try_idx = 1
    /\ pc = "main"
    /\ file_idx = 1
    /\ failures = <<>>
    /\ exit_status = <<>>
    /\ disk \in [Files -> InitialContents]
    /\ disk0 = disk
    /\ tmp = NoFile
    /\ st_lines = <<>>
    /\ rule_idx = 1
    /\ rows = <<>>
    /\ prog = <<>>
    /\ resolver = NoResolver
    /\ fix_calls = 0
    /\ fixes_in_pass = 0
    /\ resolve_calls = 0
    /\ last_tx = NoTx
    /\ span0 = "none"
    /\ reloads = 0

NextApi ==
    \/ Next
    \/ TxAssertionError

SpecApi == InitApi /\ [][NextApi]_vars

\* the process has ended
Ended == pc \in {"done", "traceback", "crashed"}

\* no shipped rule hands the resolver a node whose span fails _range
RangeAlwaysOk ==
    pc = "fix" /\ prog # <<>> /\ NeedsRange(Head(prog))
        => RangeOk(RangeTarget(Head(prog), resolver.anchor))

(***************************************************************************)
(* The repairs a file needs, computed without the driver: the findings     *)
(* that are reported and fixed one after another until every rule passes.  *)
(***************************************************************************)
MaxRepairs == 6

\* check_rules on one file: the first finding in rule order
FirstFinding(file_name, snapshot) ==
    Let(<<RunCheck(1, file_name, snapshot), RunCheck(2, file_name, snapshot),
          RunCheck(3, file_name, snapshot)>>, FirstOf)

\* a fix callback run to its end on a file content
RECURSIVE RunProg(_, _, _)
RunProg(buf, p, anchor) ==
    IF p = <<>> THEN buf
    ELSE IF Head(p).op = "enter" THEN RunProg(buf, Tail(p), Head(p).node)
    ELSE IF Head(p).op = "exit" THEN RunProg(WriteLines(buf), Tail(p), anchor)
    ELSE RunProg(ApplyIns(buf, Head(p), anchor), Tail(p), anchor)

\* the messages of the findings fixed in turn; "unfixable" ends the trace
\* when a fix leaves its finding in place or the file unparsable
RECURSIVE RepairTrace(_, _, _)
RepairTrace(file_name, content, fuel) ==
    IF ~ParseOk(content) THEN <<"unfixable">>
    ELSE LET f == FirstFinding(file_name, content)
             fixed == RunProg(content, f.prog, Root)
         IN  IF f = NoFinding THEN <<>>
             ELSE IF fuel = 0 \/ fixed = content THEN <<"unfixable">>
             ELSE <<f.msg>> \o RepairTrace(file_name, fixed, fuel - 1)

TraceOf(i) == RepairTrace(FileName(i), disk0[i], MaxRepairs)

Fixable(i) == \A k \in 1..Len(TraceOf(i)) : TraceOf(i)[k] # "unfixable"

\* the fixes the file needs, one per pass
Repairs(i) == Len(TraceOf(i))

\* the distinct violation classes met while the file is repaired
ViolationClasses(i) == Cardinality({TraceOf(i)[k] : k \in 1..Len(TraceOf(i))})

Clean(i) == ParseOk(disk[i]) /\ FirstFinding(FileName(i), disk[i]) = NoFinding

Handling == pc \in {"resolve", "fix", "tmp", "copy", "copied", "reload", "raise"}

(***************************************************************************)
(* Properties of the patch transaction.                                    *)
(***************************************************************************)
\* C1: a transaction whose buffer at exit equals the content read at entry
\* moves no temporary file over the target and reloads no tree
C1_NoOpNeverWrites ==
    last_tx.noop => ~last_tx.wrote /\ ~last_tx.reloaded

\* C2: remove, replace, insert_above or insert_bellow attempted on a node of
\* span (0, 0) is reported as unavailable and leaves the line buffer as it was
C2_ZeroSpanUnavailable ==
    span0 # "none" =>
        /\ span0 # "mutated"
        /\ \E k \in 1..Len(rows) : rows[k] = R_UNAVAILABLE

\* C3: a failed line-bound assertion aborts only the fix: the report says the
\* refactoring is unavailable, and the run goes on with nothing but the
\* finding raised
C3_ZeroBoundAbortsOnlyFix ==
    span0 = "asserted" =>
        /\ exit_status = <<>>
        /\ pc # "traceback"
        /\ rows # <<>> /\ rows[Len(rows)] = R_UNAVAILABLE

\* C9: while a transaction commits, and after a crash in it, the target holds
\* the whole content read at entry or the whole new buffer
C9_AllOrNothing ==
    resolver.open =>
        disk[file_idx] \in {resolver.original, WriteLines(resolver.lines)}

\* C10: when a rule is about to check and when a transaction is about to
\* open, the tree's snapshot lines are the file's content on disk
C10_SnapshotFresh ==
    \/ pc = "check_rules" /\ rule_idx <= NumRules
    \/ pc = "fix" /\ prog # <<>> /\ Head(prog).op = "enter"
    => st_lines = disk[file_idx]

\* a second transaction of one callback opens after the first wrote the file
C10_SecondTransaction ==
    /\ pc = "fix" /\ prog # <<>> /\ Head(prog).op = "enter"
    /\ last_tx.wrote /\ last_tx.reloaded
    /\ try_idx = 1
    /\ disk[file_idx] # disk0[file_idx]

(***************************************************************************)
(* Properties of the driver.                                               *)
(***************************************************************************)
\* C4 as stated: every file fixable and an attempt bound of at least the
\* number of distinct violation classes present gives the success outcome
C4_ClassesBoundSuffices ==
    /\ pc = "done" /\ refactor >= 1
    /\ \A i \in Files : Fixable(i) /\ refactor >= ViolationClasses(i)
    => exit_status = <<0>>

\* C4 with the bound the driver needs: every file fixable and an attempt
\* bound greater than the number of fixes any one file needs gives the
\* success outcome with no finding left in any file
C4_Converges ==
    /\ pc = "done" /\ refactor >= 1
    /\ \A i \in Files : Fixable(i) /\ refactor >= Repairs(i) + 1
    => /\ exit_status = <<0>>
       /\ failures = <<>>
       /\ \A i \in Files : Clean(i)

\* a run that needed two fixes on one file and ended clean
C4_TwoRepairsDone ==
    /\ pc = "done" /\ refactor >= 1
    /\ \A i \in Files : Fixable(i) /\ refactor >= Repairs(i) + 1
    /\ \E i \in Files : Repairs(i) >= 2
    /\ try_idx = refactor

\* C5: check-only with a finding is one pass ending in the failure status
C5_CheckOnlyFails ==
    pc = "done" /\ refactor = 0 /\ failures # <<>> =>
        try_idx = 1 /\ exit_status = <<1>>

\* where the process is in its run: the pass, the stage of main, the file,
\* the stage of the file, the rule, the callback's progress, the commit step
Position ==
    << try_idx,
       CASE pc = "main" -> 0
         [] pc = "main_check" -> 2
         [] Ended -> 3
         [] OTHER -> 1,
       file_idx,
       CASE pc = "run_checker" -> 0
         [] pc = "check_rules" -> 1
         [] pc = "resolve" -> 2
         [] pc = "raise" -> 4
         [] OTHER -> 3,
       rule_idx,
       0 - Len(prog),
       CASE pc = "tmp" -> 1
         [] pc = "copy" -> 2
         [] pc = "copied" -> 3
         [] pc = "reload" -> 4
         [] OTHER -> 0 >>

\* lexicographic order on positions
LexLess(a, b) ==
    \E k \in 1..Len(a) : a[k] < b[k] /\ \A j \in 1..(k - 1) : a[j] = b[j]

\* C6: with an attempt bound N >= 1 the driver ends within N passes: success
\* at the first pass without findings, another pass while findings remain and
\* fewer than N passes ran, the failure status when the N-th pass has findings;
\* every step moves the run forward, so that no pass runs for ever
C6_DriverTerminates ==
    /\ [](refactor >= 1 => try_idx <= refactor)
    /\ [][refactor >= 1 /\ pc = "main_check" =>
            /\ failures = <<>> => pc' = "done" /\ exit_status' = <<0>>
            /\ failures # <<>> /\ try_idx < refactor =>
                   pc' = "main" /\ try_idx' = try_idx + 1 /\ exit_status' = <<>>
            /\ failures # <<>> /\ try_idx = refactor =>
                   pc' = "done" /\ exit_status' = <<1>>]_vars
    /\ [][LexLess(Position, Position')]_vars

\* the last allowed pass ended with findings
C6_LastPassFailed ==
    pc = "done" /\ refactor >= 2 /\ try_idx = refactor /\ exit_status = <<1>>

\* C7: the finding is reported before its fix runs, and is still handed to
\* the caller after the fix, so a pass that ran a fix is never a clean pass
C7_ReportThenFixThenRaise ==
    /\ Handling => rows # <<>> /\ rows[1] = R_REPORTED
    /\ pc \in {"run_checker", "main_check"} => Len(failures) >= fixes_in_pass
    /\ pc = "main_check" /\ fixes_in_pass > 0 => failures # <<>>
    /\ pc = "done" /\ fixes_in_pass > 0 /\ refactor >= 1 => exit_status = <<1>>

\* a pass is over in which a fix wrote a file
C7_PassWithFix ==
    pc = "main_check" /\ fixes_in_pass > 0 /\ disk # disk0

\* C8 as stated: in check-only mode no fix callback runs, no transaction
\* opens and every target file keeps its content
C8_CheckOnlyFrame ==
    refactor = 0 =>
        /\ fix_calls = 0
        /\ ~resolver.open /\ tmp = NoFile /\ last_tx = NoTx
        /\ disk = disk0

\* C8 with the formatter set apart: in check-only mode no fix callback runs
\* and no transaction opens, and without --autoformat every target file
\* keeps its content whatever findings are reported
C8_CheckOnlyFrameUnformatted ==
    refactor = 0 =>
        /\ fix_calls = 0
        /\ ~resolver.open /\ tmp = NoFile /\ last_tx = NoTx
        /\ ~autoformat => disk = disk0

\* a check-only run without --autoformat ended with a finding in every file
C8_CheckOnlyFindings ==
    refactor = 0 /\ ~autoformat /\ pc = "done" /\ Len(failures) = NumFiles

\* C11: no node is kept across a transaction boundary: whenever a transaction
\* is open, its anchor node, taken from the nodes the rule captured when it
\* was constructed, belongs to the tree parsed after the most recent commit,
\* i.e. no reload has rebuilt the tree since the rule captured its nodes
C11_NoStaleAnchor ==
    resolver # NoResolver => reloads = 0

\* C12: in one pass over one file the first finding opens one batch, every
\* later report made before the batch is raised is appended to that batch,
\* and the file adds at most one batch to the failures of the pass
C12_OneBatchPerFile ==
    /\ [](LET \* the batch opens with the first report and holds no second
              OneReport(b) == /\ b # <<>>
                              /\ b[1] = R_REPORTED
                              /\ \A k \in 2..Len(b) : b[k] # R_REPORTED
          IN  /\ Len(failures) <= file_idx - 1
              /\ \A k \in 1..Len(failures) : OneReport(failures[k])
              /\ Handling => OneReport(rows))
    /\ [][/\ (Handling /\ Handling') =>
                 Len(rows) <= Len(rows') /\ SubSeq(rows', 1, Len(rows)) = rows
          /\ failures' # failures /\ failures' # <<>> =>
                 /\ failures' = Append(failures, rows)
                 /\ file_idx' = file_idx + 1]_vars

\* a batch that grew by a later report has joined the failures
C12_BatchWithLaterReport ==
    \E k \in 1..Len(failures) :
        /\ failures[k][1] = R_REPORTED
        /\ \E j \in 2..Len(failures[k]) : failures[k][j] = R_WRITE

\* C13: once a rule has raised a finding for a file, no later rule of the
\* registry order is evaluated for that file in the pass (the rule index
\* stays where it is until the finding has left check_rules, and then the
\* next file follows; the file index falls only when a new pass begins), and
\* the rows the rule produced are kept in the batch that joins the failures
C13_FindingEndsRules ==
    [][/\ pc = "check_rules" /\ Handling' => rows' = ReportRows(CurrentFinding)
       /\ Handling =>
             /\ rule_idx' = rule_idx
             /\ file_idx' >= file_idx
             /\ pc' \in {"resolve", "fix", "tmp", "copy", "copied", "reload", "raise",
                         "run_checker", "traceback", "crashed"}
             /\ Handling' =>
                    Len(rows) <= Len(rows') /\ SubSeq(rows', 1, Len(rows)) = rows
             /\ pc' = "run_checker" =>
                    /\ file_idx' = file_idx + 1
                    /\ failures' = Append(failures, rows)
       /\ file_idx' < file_idx => pc = "main"]_vars

\* a finding of a rule that is not the last one is about to leave check_rules
C13_RaisedBeforeLastRule ==
    /\ pc = "raise"
    /\ rule_idx < NumRules
    /\ \E j \in 1..Len(rows) : rows[j] = R_WRITE

\* C14: a rule failure on one file does not stop the other files: while a
\* pass has files left, the process does not end on its own (being killed
\* apart), whatever happened on the files before; each file is left either
\* after all its rules passed, adding nothing to the failures, or with its
\* finding, adding one entry; and the pass returns only after the last file
C14_EveryFileChecked ==
    [][/\ pc \in {"run_checker", "check_rules"} \cup
                 {"resolve", "fix", "tmp", "copy", "copied", "reload", "raise"}
          /\ file_idx <= NumFiles
          => pc' \notin {"traceback", "done"}
       /\ file_idx' = file_idx + 1 =>
             \/ pc = "raise" /\ failures' = Append(failures, rows)
             \/ pc = "check_rules" /\ rule_idx > NumRules /\ failures' = failures
       /\ pc' = "main_check" /\ pc # "main_check" => file_idx = NumFiles + 1]_vars

(***************************************************************************)
(* The rules as functions of the file: one file, checked and repaired pass *)
(* after pass in refactor mode, as run_checker and check_rules do for each *)
(* file.  The file starts as a run of import lines followed by a tail.     *)
(***************************************************************************)
InputLines ==
    {"import os", "import sys", "import cm", "import os, sys", "from m import a",
     "from m import b", "from m import c", "from m import b, a", "from .r import a",
     "from os import a"}

\* what follows the imports
InputTails ==
    { <<>>,
      <<L_DEFOK, L_BODY>>,
      <<L_DEFOK, L_BODY, L_BIMP>>,
      <<L_DEFOK, L_BIMP>>,
      <<L_DEFOK, L_BODY, "import sys">>,
      <<L_DEFSP, L_BODY>>,
      <<L_DEF1>>,
      <<L_ADEF, L_BODY>> }

\* the sequences over S of length 1..n
RECURSIVE SeqsUpTo(_, _)
SeqsUpTo(S, n) ==
    IF n = 0 THEN {}
    ELSE LET shorter == SeqsUpTo(S, n - 1)
         IN  {<<x>> : x \in S} \cup shorter
                 \cup {Append(q, x) : q \in shorter, x \in S}

\* the forms of an export list, and the public members of a file
ExportLists ==
    {<<L_ALLO>> \o e \o <<L_CLOSE>> :
        e \in {<<>>, <<L_ALLX>>, <<L_ALLY>>, <<L_ALLX, L_ALLY>>, <<L_ALLY, L_ALLX>>}}
    \cup {<<L_ALLLIST>>, <<L_ALLCALL>>}

MemberLines ==
    {<<>>, <<L_X>>, <<L_Y>>, <<L_X, L_Y>>, <<L_Y, L_X>>,
     <<L_PUBIMP>>, <<L_PUBIMP, L_X>>, <<L_PUBIMP, L_ADEF, L_BODY>>}

\* what a file without the __future__ import holds below its docstring
UnimportedTails ==
    { <<>>,
      <<L_X>>,
      <<L_BLANK, "import os">>,
      <<L_DEFOK, L_BODY>>,
      <<L_DECO, L_DEFOK, L_BODY>>,
      <<L_DECO, L_DEF, L_BODY>> }

\* files that start with the __future__ import, and files that hold it
\* further down or not at all; files with members and export lists
RuleInputs ==
    {<<L_FUT>> \o a \o m \o b : a, b \in {<<>>} \cup ExportLists, m \in MemberLines}
    \cup
    {<<L_FUT>> \o b \o t : b \in {<<>>} \cup SeqsUpTo(InputLines, MaxBlock),
                            t \in InputTails}
    \cup {b \o t \o e : b \in {<<>>, <<"import sys", "import os">>},
                        t \in InputTails, e \in {<<>>, <<L_FUT>>}}
    \cup {d \o t : d \in {<<>>, <<L_DOC>>, <<L_DOCQ, L_BLANK>>}, t \in UnimportedTails}
    \cup {<<L_DOC, L_FUT, "import sys", "import os">> \o t : t \in InputTails}
    \cup {<<L_FUT, L_SEMI>> \o b \o <<L_ALLO, L_ALLX, L_CLOSE>> : b \in {<<>>, <<L_BLANK>>}}

\* the regular module the rules are applied to
TheFile == NumFiles

\* every assertion of the callback holds, and every name it reads is bound
RECURSIVE ProgOk(_, _, _)
ProgOk(buf, p, anchor) ==
    IF p = <<>> THEN TRUE
    ELSE IF Head(p).op = "enter" THEN ProgOk(buf, Tail(p), Head(p).node)
    ELSE IF Head(p).op = "exit" THEN ProgOk(WriteLines(buf), Tail(p), anchor)
    ELSE /\ NeedsRange(Head(p)) => RangeOk(RangeTarget(Head(p), anchor))
         /\ Head(p).op = "insert_above" => RangeWithZeroOk(anchor)
         /\ Head(p).op = "annotate" => ~AnnotateUnbound(Head(p))
         /\ ProgOk(ApplyIns(buf, Head(p), anchor), Tail(p), anchor)

InitRules ==
    /\ refactor = MaxRepairs
    /\ autoformat = FALSE
    /\ plugin = NoPlugin
    /\ try_idx = 1
    /\ pc = "pass"
    /\ file_idx = TheFile
    /\ failures = <<>>
    /\ exit_status = <<>>
    /\ \E c \in RuleInputs : disk = [i \in Files |-> IF i = TheFile THEN c ELSE <<L_FUT>>]
    /\ disk0 = disk
    /\ tmp = NoFile
    /\ st_lines = disk[TheFile]
    /\ rule_idx = 1
    /\ rows = <<>>
    /\ prog = <<>>
    /\ resolver = NoResolver
    /\ fix_calls = 0
    /\ fixes_in_pass = 0
    /\ resolve_calls = 0
    /\ last_tx = NoTx
    /\ span0 = "none"
    /\ reloads = 0

\* check_rules on the file: the first finding is reported, or none is
RulesRun ==
    /\ pc = "pass"
    /\ try_idx <= refactor
    /\ \E f \in {FirstFinding(FileName(TheFile), disk[TheFile])} :
           IF f = NoFinding
           THEN /\ pc' = "clean"
                /\ resolve_calls' = 0
                /\ exit_status' = <<0>>
                /\ UNCHANGED <<rows, prog>>
           ELSE /\ pc' = "callback"
                /\ resolve_calls' = 1
                /\ rows' = ReportRows(f)
                /\ prog' = f.prog
                /\ UNCHANGED exit_status
    /\ UNCHANGED <<refactor, autoformat, plugin, try_idx, file_idx, failures, disk, tmp,
                   st_lines, rule_idx, resolver, disk0, fix_calls, fixes_in_pass,
                   last_tx, span0, reloads>>

\* the fix callback runs to its end and the tree is reloaded for the next
\* pass; a file that no longer parses ends the process with a traceback
FixRuns ==
    /\ pc = "callback"
    /\ ProgOk(disk[TheFile], prog, Root)
    /\ \E fixed \in {RunProg(disk[TheFile], prog, Root)} :
           /\ disk' = [disk EXCEPT ![TheFile] = fixed]
           /\ st_lines' = fixed
           /\ IF ParseOk(fixed)
              THEN pc' = "pass" /\ UNCHANGED exit_status
              ELSE pc' = "traceback" /\ exit_status' = <<1>>
    /\ prog' = <<>>
    /\ fix_calls' = fix_calls + 1
    /\ try_idx' = try_idx + 1
    /\ UNCHANGED <<refactor, autoformat, plugin, file_idx, failures, tmp, rule_idx, rows,
                   resolver, disk0, fixes_in_pass, resolve_calls, last_tx, span0, reloads>>

\* the fix callback raises: the process ends with a traceback
FixRaises ==
    /\ pc = "callback"
    /\ ~ProgOk(disk[TheFile], prog, Root)
    /\ pc' = "traceback"
    /\ exit_status' = <<1>>
    /\ UNCHANGED <<refactor, autoformat, plugin, try_idx, file_idx, failures, disk, tmp,
                   st_lines, rule_idx, rows, prog, resolver, disk0, fix_calls,
                   fixes_in_pass, resolve_calls, last_tx, span0, reloads>>

NextRules ==
    \/ RulesRun
    \/ FixRuns
    \/ FixRaises

SpecRules == InitRules /\ [][NextRules]_vars

\* the nodes of the import block of a file: the run of import statements
\* that follows the leading strings
RECURSIVE LeadingImports(_)
LeadingImports(nodes) ==
    IF nodes # <<>> /\ IsImport(Head(nodes))
    THEN <<Head(nodes)>> \o LeadingImports(Tail(nodes))
    ELSE <<>>

RECURSIVE AfterStrings(_)
AfterStrings(nodes) ==
    IF nodes # <<>> /\ Head(nodes).kind = "String" THEN AfterStrings(Tail(nodes)) ELSE nodes

ImportBlock(content) == LeadingImports(AfterStrings(Parse(content)))

\* the `from X import ...` statements of the import block
FromStatements(content, X) ==
    SelectSeq(ImportBlock(content), LAMBDA n : n.kind = "ImportFrom" /\ n.name = X)

RECURSIVE AllNames(_)
AllNames(stmts) == IF stmts = <<>> THEN <<>> ELSE Head(stmts).names \o AllNames(Tail(stmts))

\* the file with the first statement of `stmts` rewritten as `line` and the
\* other ones taken out
MergedInto(content, stmts, line) ==
    LET keep == SelectSeq([k \in 1..Len(content) |-> k],
                          LAMBDA k : \A i \in 2..Len(stmts) : stmts[i].lineno # k)
    IN  [i \in 1..Len(keep) |->
            IF keep[i] = stmts[1].lineno THEN line ELSE content[keep[i]]]

\* C15: when the import block holds two or more `from X import ...` of the
\* same X, the merge fix leaves one such statement, at the first occurrence,
\* listing the de-duplicated, sorted union of all their names, and removes
\* every other occurrence
C15_MergeLeavesOne ==
    [][(pc = "callback" /\ pc' = "pass"
          /\ rows[2] = "There seems to be import from on multiple places") =>
          \E X \in ModuleNames :
              /\ Len(FromStatements(st_lines, X)) >= 2
              /\ st_lines' = MergedInto(st_lines, FromStatements(st_lines, X),
                                  FromLine(X, SortedNameSet(AllNames(FromStatements(st_lines, X)))))
              /\ Len(FromStatements(st_lines', X)) = 1]_vars

\* the module an import statement names, and the bucket of that module
ModuleOf(n) == IF n.kind = "ImportFrom" THEN n.name ELSE n.names[1]

BucketOf(n) ==
    IF StartsWithUnderscore(ModuleOf(n)) THEN 0
    ELSE IF StartsWithDot(ModuleOf(n)) THEN 1
    ELSE IF \E k \in 1..Len(custom_modules) : StartsWith(ModuleOf(n), custom_modules[k])
         THEN 2
    ELSE 3

\* the imports are bucket after bucket, in any order inside a bucket
BucketsInOrder(imports) ==
    \A i \in 1..(Len(imports) - 1) : BucketOf(imports[i]) <= BucketOf(imports[i + 1])

\* the imports are bucket after bucket and, inside a bucket, in the strict
\* alphabetical order of their modules
ModulesInOrder(imports) ==
    \A i \in 1..(Len(imports) - 1) :
        \/ BucketOf(imports[i]) < BucketOf(imports[i + 1])
        \/ /\ BucketOf(imports[i]) = BucketOf(imports[i + 1])
           /\ Rank(ModuleOf(imports[i])) < Rank(ModuleOf(imports[i + 1]))

\* the lines lo..hi of the old file became the lines `region` of the new one
Region(old, new, lo, hi) == SubSeq(new, lo, Len(new) - (Len(old) - hi))

\* `region` holds imports only, in the order of ModulesInOrder, with one
\* blank line in front of each bucket (none in front of a leading `_` one)
WellOrdered(region) ==
    LET stmts == Parse(region)
        BlankAbove(i) == stmts[i].lineno > 1 /\ region[stmts[i].lineno - 1] = L_BLANK
        Opens(i) == IF i = 1 THEN BucketOf(stmts[1]) # 0
                    ELSE BucketOf(stmts[i]) # BucketOf(stmts[i - 1])
    IN  /\ \A i \in 1..Len(stmts) : IsImport(stmts[i])
        /\ ModulesInOrder(stmts)
        /\ \A i \in 1..Len(stmts) : BlankAbove(i) <=> Opens(i)
        /\ Len(region) = Len(stmts) + Cardinality({i \in 1..Len(stmts) : Opens(i)})

Misplaced(content) ==
    SelectSeq(Walk(PyTail(AfterStrings(Parse(content)), Len(ImportBlock(content)))), IsImport)

\* the file with statement n moved below statement b, at column 0
MovedBelow(content, n, b) ==
    SubSeq(content, 1, b.end_lineno)
        \o [i \in 1..(n.end_lineno - n.lineno + 1) |->
                Unindent(content[n.lineno + i - 1], Indent(content[n.lineno]))]
        \o SubSeq(content, b.end_lineno + 1, n.lineno - 1)
        \o SubSeq(content, n.end_lineno + 1, Len(content))

\* C17: every import outside the import block at the top is flagged by the
\* Import rule, also in a file with no import at the top: a pass in which the
\* rule flags no such import meets none, and the fix of the flagged one moves
\* it directly below the last import of the block, at column 0
C17_MisplacedImportFlagged ==
    [][/\ (pc = "pass"
            /\ \/ pc' = "clean"
               \/ /\ pc' = "callback"
                  /\ rows'[2] \in {"Found import with multiple modules on one line",
                                   "There seems to be import from on multiple places",
                                   "Import seems not to be alphabetically sorted",
                                   "Elements imported from module seems not to be sorted"})
          => Misplaced(st_lines) = <<>>
       /\ (pc = "callback" /\ rows[2] = "Found import inside script body")
          => /\ ImportBlock(st_lines) # <<>>
             /\ st_lines' = MovedBelow(st_lines, Misplaced(st_lines)[1],
                                       ImportBlock(st_lines)[Len(ImportBlock(st_lines))])]_vars

\* the public names a file defines, in alphabetical order
SortedPublic(content) ==
    (IF \E i \in 1..Len(content) : content[i] = L_PUBIMP THEN <<"os">> ELSE <<>>)
        \o (IF \E i \in 1..Len(content) : content[i] = L_X THEN <<"x">> ELSE <<>>)
        \o (IF \E i \in 1..Len(content) : content[i] = L_Y THEN <<"y">> ELSE <<>>)

\* the assignments to __all__ among the top-level statements
ExportAssignments(content) ==
    SelectSeq(Parse(content), LAMBDA n : n.kind = "Assign" /\ n.names = <<"__all__">>)

\* the findings of the Export rule on a file with at most one export list
ExportFindings ==
    {"There is no __all__ at the end of file", "There shall be no __all__",
     "__all__ is not at the end of file", "__all__ shall be tuple",
     "__all__ points on non-existing member", "__all__ contains more members",
     "__all__ does not contain all members", "__all__ is not alphabetically sorted"}

\* C18: on a regular file with at most one export list, one application of
\* the Export rule's fix leaves a file that parses, in which the export
\* list, if the file has a public member, is the last statement and a tuple
\* of exactly the sorted public names, and on which the rule finds nothing
C18_ExportFixConverges ==
    [][(pc = "callback" /\ rows[2] \in ExportFindings
          /\ Len(ExportAssignments(st_lines)) <= 1) =>
          LET nodes == Parse(st_lines')
              occ == ExportAssignments(st_lines')
          IN  /\ pc' = "pass"
              /\ ParseOk(st_lines')
              /\ SortedPublic(st_lines') = SortedPublic(st_lines)
              /\ SortedPublic(st_lines') # <<>> =>
                    /\ Len(occ) = 1
                    /\ nodes[Len(nodes)] = occ[1]
                    /\ occ[1].name = "Tuple"
                    /\ occ[1].elts = SortedPublic(st_lines')
              /\ ExportRunCheck(FileName(TheFile), nodes) = NoFinding]_vars

\* the fix of a misplaced export list ran on a file with two public members
C18_ExportListMoved ==
    /\ pc = "pass"
    /\ fix_calls = 1
    /\ rows # <<>>
    /\ rows[2] = "__all__ is not at the end of file"
    /\ SortedPublic(st_lines) = <<"x", "y">>

\* the statement a finding is reported at: the one its fix is anchored to
Flagged == prog[1].node

\* C19 as stated: of several export lists the first is not flagged and is
\* the one that is kept, the others are flagged as duplicates
C19_FirstExportListKept ==
    [][(pc = "callback" /\ rows[2] = "There is multiple assignments to __all__") =>
          LET occ == ExportAssignments(st_lines)
          IN  /\ Flagged # occ[1]
              /\ SubSeq(st_lines', 1, occ[1].end_lineno)
                    = SubSeq(st_lines, 1, occ[1].end_lineno)
              /\ Len(ExportAssignments(st_lines')) = 1]_vars

\* C19, amended: of several export lists the first is the one flagged, and
\* its fix removes that one and nothing else, so the later ones are kept
C19_FirstExportListRemoved ==
    [][/\ (pc = "pass" /\ Len(ExportAssignments(st_lines)) > 1) =>
            /\ pc' = "callback"
            /\ rows'[2] = "There is multiple assignments to __all__"
       /\ (pc = "callback" /\ rows[2] = "There is multiple assignments to __all__") =>
          LET occ == ExportAssignments(st_lines)
          IN  /\ Len(occ) > 1
              /\ Flagged = occ[1]
              /\ st_lines' = SubSeq(st_lines, 1, occ[1].lineno - 1)
                               \o SubSeq(st_lines, occ[1].end_lineno + 1, Len(st_lines))
              /\ Len(ExportAssignments(st_lines')) = Len(occ) - 1]_vars

\* the first of two different export lists was removed
C19_LaterExportListLeft ==
    /\ pc = "pass"
    /\ fix_calls = 1
    /\ rows # <<>>
    /\ rows[2] = "There is multiple assignments to __all__"
    /\ disk0[TheFile][2] = L_ALLLIST
    /\ Len(ExportAssignments(st_lines)) = 1
    /\ ExportAssignments(st_lines)[1].name = "Tuple"

\* the mismatch kinds that apply to an export list with the members `all`
\* in a file with the public names `pub`
Mismatches(pub, all) ==
    (IF \E i \in 1..Len(all) : \A j \in 1..Len(pub) : pub[j] # all[i]
     THEN {"__all__ points on non-existing member"} ELSE {})
    \cup (IF pub = all THEN {}
          ELSE IF Len(pub) < Len(all) THEN {"__all__ contains more members"}
          ELSE IF Len(pub) > Len(all) THEN {"__all__ does not contain all members"}
          ELSE {"__all__ is not alphabetically sorted"})

\* C20: when the single, last, tuple-typed export list of a regular file
\* differs from the sorted public names, the pass reports every mismatch
\* kind that applies
C20_EveryMismatchReported ==
    [][(/\ pc = "pass"
        /\ SortedPublic(st_lines) # <<>>
        /\ Len(ExportAssignments(st_lines)) = 1
        /\ Parse(st_lines)[Len(Parse(st_lines))] = ExportAssignments(st_lines)[1]
        /\ ExportAssignments(st_lines)[1].name = "Tuple"
        /\ ExportAssignments(st_lines)[1].elts # SortedPublic(st_lines)) =>
          /\ pc' = "callback"
          /\ \A m \in Mismatches(SortedPublic(st_lines), ExportAssignments(st_lines)[1].elts) :
                \E k \in 1..Len(rows') : rows'[k] = m]_vars

\* the names a top-level statement defines: a class, a function (plain or
\* async), an annotated variable, the aliases of an import, the targets of
\* an assignment
DefinedNames(n) ==
    CASE n.kind \in {"Class", "Function", "AsyncFunction", "Annotation"} -> {n.name}
      [] n.kind \in {"Import", "ImportFrom", "Assign"} ->
           {n.names[i] : i \in 1..Len(n.names)}
      [] OTHER -> {}

\* those of them that do not start with `_` and hold neither `.` nor `[`
PublicNames(content) ==
    {name \in UNION {DefinedNames(Parse(content)[k]) : k \in 1..Len(Parse(content))} :
        is_public_root(name)}

CountedNames(content) ==
    {name \in UNION {IF Parse(content)[k].kind = "AsyncFunction" THEN {}
                     ELSE IF IsImport(Parse(content)[k])
                             /\ \A i \in 1..Len(Parse(content)[k].elts) :
                                    Parse(content)[k].elts[i] # "public"
                     THEN {}
                     ELSE DefinedNames(Parse(content)[k]) : k \in 1..Len(Parse(content))} :
        is_public_root(name)}

Unannotated(content) ==
    {k \in 1..Len(Parse(content)) :
        /\ Parse(content)[k].kind \in {"Function", "AsyncFunction"}
        /\ ~Parse(content)[k].returns}

\* C22: every function definition that lacks a return annotation, plain or
\* async, is flagged by the Annotation rule: no pass finds a file clean that
\* holds such a definition
C22_EveryUnannotatedFlagged ==
    [][pc = "pass" /\ Unannotated(st_lines) # {} => pc' # "clean"]_vars

\* the line the scan of the return-annotation fix stops at: the last line
\* from the definition line to the line before the first body statement
\* that ends in "):"; 0 when there is none
DefLineFound(buf, ins) ==
    IF \E k \in ins.lo..(ins.hi - 1) : EndsParenColon(buf[k])
    THEN CHOOSE k \in ins.lo..(ins.hi - 1) :
             /\ EndsParenColon(buf[k])
             /\ \A j \in (k + 1)..(ins.hi - 1) : ~EndsParenColon(buf[j])
    ELSE 0

\* C23: the return-annotation fix rewrites the line ending in "):" it finds
\* to end in ") -> None:"; when it finds none, a one-line definition
\* included, it reports the fix as unavailable, raises nothing and leaves the
\* buffer as it is
C23_AnnotatesOrReportsUnavailable ==
    [][pc = "fix" /\ prog # <<>> /\ Head(prog).op = "annotate" =>
          /\ pc' # "traceback"
          /\ IF DefLineFound(resolver.lines, Head(prog)) # 0
             THEN resolver'.lines =
                      [resolver.lines EXCEPT
                          ![DefLineFound(resolver.lines, Head(prog))] = L_DEFOK]
             ELSE /\ resolver'.lines = resolver.lines
                  /\ rows' = Append(rows, R_UNAVAILABLE)]_vars

\* the first line of a file that is not blank; 0 when there is none
FirstStatementLine(content) ==
    IF \A k \in 1..Len(content) : content[k] = L_BLANK THEN 0
    ELSE CHOOSE k \in 1..Len(content) :
             content[k] # L_BLANK /\ \A j \in 1..(k - 1) : content[j] = L_BLANK

\* the file with the import and its blank line put right after the leading
\* docstring, else right above the first statement, else at line 1
WithFutureImport(content) ==
    LET f == FirstStatementLine(content)
        above == IF f = 0 THEN 0
                 ELSE IF content[f] \in {L_DOC, L_DOCQ} THEN f
                 ELSE f - 1
    IN  SubSeq(content, 1, above) \o <<L_FUT, L_BLANK>>
            \o SubSeq(content, above + 1, Len(content))

\* C24: the fix of a missing `from __future__ import annotations` puts the
\* import right after a leading docstring, else above the first top-level
\* statement, else at line 1, and the file that results holds the import for
\* the Annotation rule to find
C24_FutureImportPlaced ==
    [][/\ pc = "callback"
       /\ rows[2] = "There shall be import of annotations from __future__"
       => /\ pc' = "pass"
          /\ disk'[TheFile] = WithFutureImport(disk[TheFile])
          /\ from_future_import_annotations(Parse(disk'[TheFile])) # <<>>]_vars

\* the span and the lines of an operation that replaces a span
SpanOp(ins) == ins.op \in {"replace_lines", "remove", "replace"}

SpanLo(ins) == IF ins.op = "replace_lines" THEN ins.lo ELSE ins.node.lineno

SpanHi(ins) == IF ins.op = "replace_lines" THEN ins.hi ELSE ins.node.end_lineno

SpanLines(ins) == IF ins.op = "remove" THEN <<>> ELSE ins.lines

\* the callback that is about to run makes one change, to a span that lies
\* in the file
OneSpanOp ==
    /\ pc = "callback"
    /\ Len(prog) = 3
    /\ SpanOp(prog[2])
    /\ 1 <= SpanLo(prog[2])
    /\ SpanLo(prog[2]) <= SpanHi(prog[2])
    /\ SpanHi(prog[2]) <= Len(disk[TheFile])

\* C25: replace_lines over start..end inside the buffer leaves the lines
\* before start and after end as they are and in their order, with the given
\* lines between them; remove does so with no lines over the node's span and
\* replace with the given lines over the node's span.  The file written is
\* that buffer
C25_OnlyTheSpanChanges ==
    [][OneSpanOp =>
          disk'[TheFile] =
              WriteLines(SubSeq(disk[TheFile], 1, SpanLo(prog[2]) - 1)
                             \o SpanLines(prog[2])
                             \o SubSeq(disk[TheFile], SpanHi(prog[2]) + 1,
                                       Len(disk[TheFile])))]_vars

\* the first fix of the file replaced a span of several lines that had lines
\* above it and below it
C25_InnerSpanReplaced ==
    /\ pc = "pass"
    /\ fix_calls = 1
    /\ disk[TheFile] # disk0[TheFile]
    /\ \E f \in {FirstFinding(FileName(TheFile), disk0[TheFile])} :
           /\ Len(f.prog) = 3
           /\ f.prog[2].op = "replace_lines"
           /\ 1 < f.prog[2].lo
           /\ f.prog[2].lo < f.prog[2].hi
           /\ f.prog[2].hi < Len(disk0[TheFile])

\* the buffer with `lines` put after its first k lines
InsertedAfter(buf, k, lines) ==
    SubSeq(buf, 1, k) \o lines \o SubSeq(buf, k + 1, Len(buf))

\* C26: insert_above puts the lines right before the anchor's start line,
\* and at position 1 when the anchor has no span, so every line of the
\* buffer is kept in its order; insert_bellow puts them right after the
\* anchor's end line, and ends with a failed assertion when the anchor's
\* span is not strictly positive
C26_InsertKeepsEveryLine ==
    [][/\ pc = "fix"
       /\ prog # <<>>
       /\ Head(prog).op \in {"insert_above", "insert_bellow"}
       => IF Head(prog).op = "insert_above"
          THEN resolver'.lines =
                   InsertedAfter(resolver.lines,
                                 IF resolver.anchor.lineno = 0 THEN 0
                                 ELSE resolver.anchor.lineno - 1,
                                 Head(prog).lines)
          ELSE IF resolver.anchor.lineno > 0 /\ resolver.anchor.end_lineno > 0
          THEN resolver'.lines =
                   InsertedAfter(resolver.lines, resolver.anchor.end_lineno,
                                 Head(prog).lines)
          ELSE pc' = "traceback" /\ disk' = disk]_vars

\* insert_above has put a line at the top of a file that has lines, its
\* anchor being the module node, whose span is absent
C26_InsertedAtTopForRoot ==
    /\ pc = "fix"
    /\ resolver.open
    /\ resolver.anchor = Root
    /\ plugin.op = "insert_above"
    /\ resolver.original # <<>>
    /\ resolver.lines = <<L_BLANK>> \o resolver.original

\* every rule has passed on the current file in the current pass
FilePassedClean == pc = "check_rules" /\ rule_idx > NumRules

\* C27: in one pass over one file resolve_finding is called at most once, a
\* fix callback is started only by that call, and a file that needs k fixes
\* passes clean only after k passes before the clean one
C27_OneFindingPerFilePerPass ==
    /\ [](/\ resolve_calls <= 1
          /\ FilePassedClean => try_idx - 1 >= Repairs(file_idx))
    /\ [][fix_calls' # fix_calls =>
              /\ fix_calls' = fix_calls + 1
              /\ pc = "resolve" /\ pc' = "fix"
              /\ resolve_calls = 1 /\ resolve_calls' = 1]_vars

\* a file that needed two fixes passes clean in the third pass
C27_CleanInThirdPass ==
    /\ FilePassedClean
    /\ Repairs(file_idx) = 2
    /\ try_idx = 3
    /\ fix_calls >= 2
    /\ disk[file_idx] # disk0[file_idx]

\* how often each import statement occurs at the top level of a file
ImportCount(content) ==
    [l \in ImportLines \cup {L_FUT, L_PUBIMP} |->
        Cardinality({k \in 1..Len(content) : content[k] = l})]

\* C28: the fix of the import order only reorders: every import statement
\* of the file is still there after the fix and none occurs more often than
\* before, also when two imports share their module name
C28_SortOnlyReorders ==
    [][/\ pc = "callback"
       /\ rows[2] = "Import seems not to be alphabetically sorted"
       => \A l \in DOMAIN ImportCount(disk[TheFile]) :
              /\ ImportCount(disk'[TheFile])[l] <= ImportCount(disk[TheFile])[l]
              /\ ImportCount(disk[TheFile])[l] > 0
                     => ImportCount(disk'[TheFile])[l] > 0]_vars

\* C29: the import block of the Import rule holds every import statement of
\* the run of imports that follows the leading strings, the last one of a
\* file of imports only included, so an import of several modules on one
\* line anywhere in that run keeps the file from passing
C29_BlockHoldsEveryLeadingImport ==
    [][pc = "pass" =>
          /\ prepare_nodes(Parse(st_lines)).imports = ImportBlock(st_lines)
          /\ (\E k \in 1..Len(ImportBlock(st_lines)) :
                  /\ ImportBlock(st_lines)[k].kind = "Import"
                  /\ Len(ImportBlock(st_lines)[k].names) > 1)
             => pc' # "clean"]_vars

\* the callback that is about to run removes one node and then replaces
\* another or inserts below another
TwoSpanOps ==
    /\ pc = "callback"
    /\ Len(prog) = 4
    /\ prog[2].op = "remove"
    /\ prog[3].op \in {"replace", "insert_bellow"}

\* the node the second operation of the callback targets
SecondTarget == IF prog[3].op = "replace" THEN prog[3].node ELSE prog[1].node

\* the lines lo..hi of the file
FileLines(lo, hi) == SubSeq(disk[TheFile], lo, hi)

\* C30: in a fix that removes a node and then replaces or inserts below
\* another, the removed node lies strictly after the other node's span, and
\* the file written differs from the old one only in the two spans
C30_RemovedNodeComesLater ==
    [][TwoSpanOps =>
          /\ prog[2].node.lineno > SecondTarget.end_lineno
          /\ disk'[TheFile] =
                 FileLines(1, IF prog[3].op = "replace" THEN SecondTarget.lineno - 1
                              ELSE SecondTarget.end_lineno)
                     \o prog[3].lines
                     \o FileLines(SecondTarget.end_lineno + 1, prog[2].node.lineno - 1)
                     \o FileLines(prog[2].node.end_lineno + 1, Len(disk[TheFile]))]_vars

====
